---- MODULE Spec2Model ----
(***************************************************************************)
(* Phaistos, a 6502 superoptimizer: the sequence enumerator                *)
(* (SequenceGenerator), the tracked memory (TrackedMemory), the CPU        *)
(* interpreter (CPU6502) and the verifier (VerificationEngine).            *)
(*                                                                         *)
(* Bytes are 0..255 and addresses 0..65535; opcodes are written in decimal *)
(* with the hexadecimal value in a comment.                                *)
(***************************************************************************)
EXTENDS Integers, Sequences, FiniteSets, TLC

VARIABLES
    \* ---- SequenceGenerator (sequence_generator.hpp:278-282) ----
    current_length,             \* size_t current_length
    max_length,                 \* size_t max_length
    valid_opcodes,              \* std::vector<uint8_t> valid_opcodes
    current_combination_index,  \* size_t current_combination_index
    current_sequences,          \* std::vector<std::vector<uint8_t>>
    gen_crashed,                \* the process died inside the generator
    next_result,                \* what the last next() call returned
    returned,                   \* sequences returned since the last reset()
    prev_len,                   \* length of the sequence returned before the last
    last_len,                   \* length of the last returned sequence
    \* ---- TrackedMemory (memory.hpp:160-170) ----
    tmem,                       \* the TrackedMemory object: memory,
                                \* modified_addresses, read_addresses,
                                \* input_regions, output_regions
    mem_op,                     \* the last operation called on tmem
    \* ---- one test run (verification_engine.cpp:288-357, cpu.cpp:22-55) ----
    spec,                       \* the OptimizationSpec of the verifier
    candidate,                  \* the candidate under test
    test,                       \* the TestCase of the run
    state,                      \* CPU6502::state
    memory,                     \* the TrackedMemory of the run
    execResult,                 \* the ExecutionResult of execute()
    max_instructions,           \* the limit execute() was called with
    phase,                      \* idle, running, returned (from execute), done
    test_passed,                \* what runTest returned
    brk_at,                     \* instructions run when the first BRK ended
    \* ---- matchesMemoryState on its own (verification_engine.cpp:518-589) ----
    match_result,               \* "none", or what the check returned
    reference,                  \* the bytes the original code block leaves at
                                \* the EQU addresses on the test's input
    \* ---- TransformationCache (transformation_cache.hpp:139) ----
    cache,                      \* std::unordered_map<TransformationKey,
                                \* CacheEntry>
    added,                      \* per key: the (size, cycles) of every add(),
                                \* the cycles given with the sequence now in
                                \* the cycle-optimal slot, and whether every
                                \* sequence was filed under its own key
    adds,                       \* number of add() calls so far
    cache_op,                   \* the last call on the cache and its result
    \* ---- Optimizer::optimizeWithCache (optimizer.cpp:123-190) ----
    goal,                       \* spec.goal
    owc,                        \* the frame of optimizeWithCache: its
                                \* locals, and the last replacement made
    \* ---- Optimizer::optimize (optimizer.cpp:15-115), main ----
    search,                     \* where optimize() is, its candidate, and
                                \* what happened to the last candidate
    best_solution,              \* std::vector<uint8_t> best_solution
    best_metric,                \* size_t best_metric
    done,                       \* bool done
    sequences_tested,           \* size_t sequences_tested
    valid_sequences_found,      \* size_t valid_sequences_found
    deadline_passed,            \* now > end_time
    exit_code,                  \* what main returns
    verified,                   \* the sequences verify() has accepted
    \* ---- VerificationEngine::generateTestCases, call after call ----
    last_cases,                 \* std::vector<TestCase> test_cases of verify()
    first_cases,                \* what the first call returned
    gen_calls,                  \* calls of generateTestCases() so far
    \* ---- sequence_generator (the slot enumerator) ----
    global_configuration,       \* s_config global_configuration
    opcode_def,                 \* struct OpcodeDef opcode_def[]
    usable_opcodes,             \* std::vector<sequence_generator_opcode_info>
    opcode_max,                 \* size_t opcode_max
    last_sequence_vector,       \* std::vector<byte> last_sequence_vector
    a_sequence,                 \* what get_next_sequence handed back last
    emitted,                    \* every sequence handed back so far
    repeated,                   \* a sequence was handed back a second time
    sg_ready,                   \* init() has run
    \* ---- workers that share one sequence_generator ----
    lock,                       \* the worker inside "omp critical", or 0
    workers,                    \* each worker: its position and its locals
    wk_crashed,                 \* the process has died
    iterations                  \* iterations of the loop started so far

genVars == <<current_length, max_length, valid_opcodes,
             current_combination_index, current_sequences, gen_crashed,
             next_result, returned, prev_len, last_len>>

memVars == <<tmem, mem_op>>

cpuVars == <<spec, candidate, test, state, memory, execResult,
             max_instructions, phase, test_passed, brk_at>>

matchVars == <<match_result, reference>>

cacheVars == <<cache, added, adds, cache_op>>

substVars == <<goal, owc>>

searchVars == <<search, best_solution, best_metric, done, sequences_tested,
                valid_sequences_found, deadline_passed, exit_code, verified>>

tgVars == <<last_cases, first_cases, gen_calls>>

sgVars == <<global_configuration, opcode_def, usable_opcodes, opcode_max,
            last_sequence_vector, a_sequence, emitted, repeated, sg_ready>>

wkVars == <<lock, workers, wk_crashed, iterations>>

vars == <<genVars, memVars, cpuVars, matchVars, cacheVars, substVars,
          searchVars, tgVars, sgVars, wkVars>>

----------------------------------------------------------------------------
(* Bounds of the model *)

\* largest sequence length the enumerator is asked to generate
LengthBound == 4

\* next() is explored for alphabets of at most this many opcodes
AlphabetBound == 3

\* the alphabets handed to setValidOpcodes():
\*   LDX #;  LDX # + INX;  LDA # + NOP;  STA abs + NOP
Alphabets == { <<162>>, <<162, 232>>, <<169, 234>>, <<141, 234>> }

\* the tracked-memory operations are explored on addresses 0..AddrBound
AddrBound == 1

\* execute() is called with limits 0..InstrBound
InstrBound == 5

\* the final and reference bytes of the memory check are 0..ByteBound
ByteBound == 2

\* the code regions of the specifications explored hold this many bytes
RegionLen == 5

----------------------------------------------------------------------------
(* Sequence helpers *)

RECURSIVE Flatten(_)
Flatten(ss) == IF ss = <<>> THEN <<>> ELSE Head(ss) \o Flatten(Tail(ss))

Range(s) == { s[i] : i \in 1..Len(s) }

Min(a, b) == IF a < b THEN a ELSE b

----------------------------------------------------------------------------
(* Value and MemoryRegion (value.hpp, optimization_spec.hpp) *)

EXACT(b) == [type |-> "EXACT", exact_value |-> b]
ANY  == [type |-> "ANY",  exact_value |-> 0]
SAME == [type |-> "SAME", exact_value |-> 0]
EQU  == [type |-> "EQU",  exact_value |-> 0]

MemoryRegion(address, bytes) == [address |-> address, bytes |-> bytes]

\* MemoryRegion::containsAddress
containsAddress(region, addr) ==
    addr >= region.address /\ addr < region.address + Len(region.bytes)

----------------------------------------------------------------------------
(* TrackedMemory (memory.hpp) *)

\* a freshly constructed TrackedMemory
NewTrackedMemory ==
    [ memory             |-> << >>,
      modified_addresses |-> {},
      read_addresses     |-> {},
      input_regions      |-> << >>,
      output_regions     |-> << >> ]

isReadAllowed(tm, address) ==
    \E i \in 1..Len(tm.input_regions) :
        containsAddress(tm.input_regions[i], address)

isWriteAllowed(tm, address) ==
    \E i \in 1..Len(tm.output_regions) :
        containsAddress(tm.output_regions[i], address)

\* the self-modification rule without its input-region half
isReadWriteAllowed_WriteOnly(tm, address) == isWriteAllowed(tm, address)

isReadWriteAllowed(tm, address) ==
    isReadAllowed(tm, address) /\ isWriteAllowed(tm, address)

\* the byte stored at an address of the sparse map, 0 when absent
Stored(tm, address) ==
    IF address \in DOMAIN tm.memory THEN tm.memory[address] ELSE 0

\* TrackedMemory::initialize
initialize(tm, address, value) ==
    [tm EXCEPT !.memory = (address :> value) @@ @]

\* a read that is recorded but never refused
TrackedRead_Unchecked(tm, address) ==
    [ tm    |-> [tm EXCEPT !.read_addresses = @ \cup {address}],
      threw |-> FALSE,
      value |-> Stored(tm, address) ]

\* TrackedMemory::read: the address is recorded first, then checked
TrackedRead(tm, address) ==
    LET tm1 == [tm EXCEPT !.read_addresses = @ \cup {address}] IN
    IF ~isReadAllowed(tm, address)
    THEN [tm |-> tm1, threw |-> TRUE,  value |-> 0]
    ELSE [tm |-> tm1, threw |-> FALSE, value |-> Stored(tm, address)]

\* a write that is recorded and stored but never refused
TrackedWrite_Unchecked(tm, address, value) ==
    [ tm    |-> [tm EXCEPT !.modified_addresses = @ \cup {address},
                           !.memory = (address :> value) @@ @],
      threw |-> FALSE ]

\* TrackedMemory::write: the address is recorded first; a previously read
\* address must be readable and writable; every address must be writable
TrackedWrite(tm, address, value) ==
    LET tm1 == [tm EXCEPT !.modified_addresses = @ \cup {address}] IN
    IF address \in tm.read_addresses /\ ~isReadWriteAllowed(tm, address)
    THEN [tm |-> tm1, threw |-> TRUE]
    ELSE IF ~isWriteAllowed(tm, address)
    THEN [tm |-> tm1, threw |-> TRUE]
    ELSE [tm |-> [tm1 EXCEPT !.memory = (address :> value) @@ @],
          threw |-> FALSE]

NoMemOp == [op |-> "none", address |-> 0, value |-> 0, threw |-> FALSE,
            read_before |-> FALSE]

\* the region lists handed to setInputRegions / setOutputRegions
RegionChoices ==
    { << >> } \cup
    { << MemoryRegion(a, << ANY >>) >> : a \in 0..AddrBound } \cup
    { << MemoryRegion(0, << ANY, EXACT(1) >>), MemoryRegion(AddrBound, << ANY >>) >> }

MemValues == {255}

MemRead(address) ==
    LET r == TrackedRead(tmem, address) IN
    /\ tmem' = r.tm
    /\ mem_op' = [op |-> "read", address |-> address, value |-> r.value,
                  threw |-> r.threw,
                  read_before |-> address \in tmem.read_addresses]

MemWrite(address, value) ==
    LET r == TrackedWrite(tmem, address, value) IN
    /\ tmem' = r.tm
    /\ mem_op' = [op |-> "write", address |-> address, value |-> value,
                  threw |-> r.threw,
                  read_before |-> address \in tmem.read_addresses]

MemInitialize(address, value) ==
    /\ tmem' = initialize(tmem, address, value)
    /\ mem_op' = [NoMemOp EXCEPT !.op = "initialize", !.address = address,
                                 !.value = value]

setInputRegions(regions) ==
    /\ tmem' = [tmem EXCEPT !.input_regions = regions]
    /\ mem_op' = [NoMemOp EXCEPT !.op = "setInputRegions"]

setOutputRegions(regions) ==
    /\ tmem' = [tmem EXCEPT !.output_regions = regions]
    /\ mem_op' = [NoMemOp EXCEPT !.op = "setOutputRegions"]

MemIdle == tmem = NewTrackedMemory /\ mem_op = NoMemOp

MemInit == MemIdle

MemNext ==
    \/ (\E a \in 0..AddrBound : MemRead(a))
          /\ UNCHANGED <<genVars, cpuVars, matchVars, cacheVars, substVars,
                     searchVars, tgVars, sgVars, wkVars>>
    \/ (\E a \in 0..AddrBound, v \in MemValues : MemWrite(a, v))
          /\ UNCHANGED <<genVars, cpuVars, matchVars, cacheVars, substVars,
                     searchVars, tgVars, sgVars, wkVars>>
    \/ (\E a \in 0..AddrBound, v \in MemValues : MemInitialize(a, v))
          /\ UNCHANGED <<genVars, cpuVars, matchVars, cacheVars, substVars,
                     searchVars, tgVars, sgVars, wkVars>>
    \/ (\E r \in RegionChoices : setInputRegions(r))
          /\ UNCHANGED <<genVars, cpuVars, matchVars, cacheVars, substVars,
                     searchVars, tgVars, sgVars, wkVars>>
    \/ (\E r \in RegionChoices : setOutputRegions(r))
          /\ UNCHANGED <<genVars, cpuVars, matchVars, cacheVars, substVars,
                     searchVars, tgVars, sgVars, wkVars>>

----------------------------------------------------------------------------
(* SequenceGenerator *)

\* cpu.cpp getAllValidOpcodes(): A9 85 95 8D 9D 99 A2 A0 18 38 E8 C8 CA 88
\* E6 C6 69 C9 D0 F0 90 B0 4C EA 00
getAllValidOpcodes ==
    << 169, 133, 149, 141, 157, 153, 162, 160, 24, 56, 232, 200, 202, 136,
       230, 198, 105, 201, 208, 240, 144, 176, 76, 234, 0 >>

\* initOpcodeInfo() + getInstructionInfo(): the byte count of an opcode;
\* an opcode missing from the table is a 1-byte implied instruction.
InstructionInfoBytes(opcode) ==
    IF opcode \in {169, 133, 149, 162, 160, 230, 198, 105, 201,
                   208, 240, 144, 176} THEN 2
    ELSE IF opcode \in {141, 157, 153, 76} THEN 3
    ELSE 1

\* the representative operand values of generateOperandCombinations
Operands1 == << 0, 1, 32, 64, 128, 255 >>
Operands2 == << 0, 32, 128, 256, 8192, 12288 >>

\* the per-length cap of generateSequencesOfLength
SequenceLimit == 10000

RECURSIVE generateSequencesRecursive(_, _, _)
RECURSIVE generateOperandCombinations(_, _, _, _)

\* generateSequencesRecursive: the list of complete sequences pushed to
\* current_sequences, in push order, starting from the prefix `current`.
generateSequencesRecursive(valid, current, remaining_bytes) ==
    IF remaining_bytes = 0 THEN << current >>
    ELSE Flatten([ i \in 1..Len(valid) |->
            IF InstructionInfoBytes(valid[i]) <= remaining_bytes
            THEN generateOperandCombinations(valid, Append(current, valid[i]),
                     InstructionInfoBytes(valid[i]), remaining_bytes - 1)
            ELSE <<>> ])

generateOperandCombinations(valid, current, bytes, remaining_bytes) ==
    LET operand_bytes == bytes - 1 IN
    IF operand_bytes = 0
    THEN generateSequencesRecursive(valid, current, remaining_bytes)
    ELSE IF operand_bytes = 1
    THEN Flatten([ j \in 1..Len(Operands1) |->
            generateSequencesRecursive(valid, Append(current, Operands1[j]),
                                       remaining_bytes - 1) ])
    ELSE IF operand_bytes = 2
    THEN Flatten([ j \in 1..Len(Operands2) |->
            generateSequencesRecursive(valid,
                current \o << Operands2[j] % 256, (Operands2[j] \div 256) % 256 >>,
                remaining_bytes - 2) ])
    ELSE <<>>

\* hasNoEffect: a non-empty sequence whose bytes are all NOP (EA)
hasNoEffect(sequence) ==
    Len(sequence) > 0 /\ \A i \in 1..Len(sequence) : sequence[i] = 234

\* hasRedundantInstructions: the loop bound is sequence.size() - 2 in size_t.
\* For a sequence of fewer than 2 bytes the bound wraps to SIZE_MAX and the
\* loop reads past the end of the vector (undefined behaviour): the scan ends
\* by finding the pattern in whatever lies behind the vector, or the process
\* dies. The result is the set of possible outcomes.
hasRedundantInstructions(sequence) ==
    IF Len(sequence) < 2 THEN { "true", "crash" }
    ELSE IF \E i \in 0..(Len(sequence) - 3) :
                sequence[i + 1] = 169 /\ sequence[i + 3] = 169
         THEN { "true" }
         ELSE { "false" }

\* the positions (from 0) of `sequence` that the loop of
\* hasRedundantInstructions reads: sequence[i], and sequence[i+2] when
\* sequence[i] is A9, for i = 0, 1, .. below size() - 2 computed in size_t,
\* up to the i at which it returns. With fewer than 2 bytes the bound has
\* wrapped; the positions are followed up to the first one outside the vector.
inspectedPositions(sequence) ==
    IF Len(sequence) = 0 THEN {0}
    ELSE IF Len(sequence) = 1
    THEN {0} \cup (IF sequence[1] = 169 THEN {2} ELSE {1})
    ELSE UNION { {i} \cup (IF sequence[i + 1] = 169 THEN {i + 2} ELSE {}) :
                 i \in { h \in 0..(Len(sequence) - 3) :
                            \A g \in 0..(h - 1) :
                               ~(sequence[g + 1] = 169 /\ sequence[g + 3] = 169) } }

\* shouldPrune: hasNoEffect first, then hasRedundantInstructions
shouldPrune(sequence) ==
    IF hasNoEffect(sequence) THEN { "true" }
    ELSE hasRedundantInstructions(sequence)

\* pruneInvalidSequences, for a run in which no call of shouldPrune crashed:
\* a sequence is kept only if shouldPrune returned false.
pruneInvalidSequences(seqs) ==
    SelectSeq(seqs, LAMBDA s : "true" \notin shouldPrune(s))

\* generateSequencesOfLength: generate, prune, cap. The set of outcomes:
\* the new current_sequences, or a crash when some shouldPrune call can crash.
generateSequencesOfLength(valid, length) ==
    LET raw    == generateSequencesRecursive(valid, <<>>, length)
        pruned == pruneInvalidSequences(raw)
        capped == IF Len(pruned) > SequenceLimit
                  THEN SubSeq(pruned, 1, SequenceLimit) ELSE pruned
    IN  { [crashed |-> FALSE, sequences |-> capped] }
        \cup { [crashed |-> TRUE, sequences |-> <<>>] :
                 i \in { k \in 1..Len(raw) : "crash" \in shouldPrune(raw[k]) } }

NoResult == [ok |-> FALSE, sequence |-> <<>>, called |-> FALSE]

\* reset(): back to length 1, regenerate. `out` is the outcome of the
\* generateSequencesOfLength(1) call.
resetTo(out) ==
    /\ current_length' = 1
    /\ current_combination_index' = 0
    /\ current_sequences' = out.sequences
    /\ gen_crashed' = out.crashed
    /\ returned' = {}
    /\ next_result' = NoResult

\* SequenceGenerator::reset()
reset ==
    /\ ~gen_crashed
    /\ \E out \in generateSequencesOfLength(valid_opcodes, 1) : resetTo(out)
    /\ prev_len' = 0 /\ last_len' = 0
    /\ UNCHANGED <<max_length, valid_opcodes>>

\* SequenceGenerator::setValidOpcodes(opcodes)
setValidOpcodes(opcodes) ==
    /\ ~gen_crashed
    /\ valid_opcodes' = opcodes
    /\ \E out \in generateSequencesOfLength(opcodes, 1) : resetTo(out)
    /\ prev_len' = 0 /\ last_len' = 0
    /\ UNCHANGED max_length

\* setMaxLength without the reset of a generator that is already past k
setMaxLength_NoReset(k) ==
    /\ ~gen_crashed
    /\ max_length' = k
    /\ UNCHANGED <<current_length, current_combination_index,
                   current_sequences, gen_crashed, returned, next_result>>
    /\ UNCHANGED <<valid_opcodes, prev_len, last_len>>

\* SequenceGenerator::setMaxLength(k)
setMaxLength(k) ==
    /\ ~gen_crashed
    /\ max_length' = k
    /\ IF current_length > k
       THEN \E out \in generateSequencesOfLength(valid_opcodes, 1) : resetTo(out)
       ELSE UNCHANGED <<current_length, current_combination_index,
                        current_sequences, gen_crashed, returned, next_result>>
    /\ UNCHANGED <<valid_opcodes, prev_len, last_len>>

\* next() returns true with `s`
nextReturns(s) ==
    /\ next_result' = [ok |-> TRUE, sequence |-> s, called |-> TRUE]
    /\ returned' = returned \cup {s}
    /\ prev_len' = last_len
    /\ last_len' = Len(s)

\* next() returns false
nextFails ==
    /\ next_result' = [ok |-> FALSE, sequence |-> <<>>, called |-> TRUE]
    /\ UNCHANGED <<returned, prev_len, last_len>>

\* SequenceGenerator::next(sequence)
next ==
    /\ ~gen_crashed
    /\ Len(valid_opcodes) <= AlphabetBound
    /\ IF current_combination_index >= Len(current_sequences)
       THEN /\ current_length < LengthBound + 2
            /\ current_length' = current_length + 1
            /\ IF current_length + 1 > max_length
               THEN /\ current_combination_index' = 0
                    /\ nextFails
                    /\ UNCHANGED <<current_sequences, gen_crashed>>
               ELSE /\ current_length + 1 <= LengthBound
                    /\ \E out \in generateSequencesOfLength(valid_opcodes,
                                                           current_length + 1) :
                         /\ current_sequences' = out.sequences
                         /\ gen_crashed' = out.crashed
                         /\ IF out.crashed
                            THEN /\ current_combination_index' = 0
                                 /\ UNCHANGED <<next_result, returned,
                                                prev_len, last_len>>
                            ELSE IF out.sequences = <<>>
                            THEN /\ current_combination_index' = 0
                                 /\ nextFails
                            ELSE /\ current_combination_index' = 1
                                 /\ nextReturns(out.sequences[1])
       ELSE /\ current_combination_index' = current_combination_index + 1
            /\ nextReturns(current_sequences[current_combination_index + 1])
            /\ UNCHANGED <<current_length, current_sequences, gen_crashed>>
    /\ UNCHANGED <<max_length, valid_opcodes>>

\* the enumerator is not used
GenIdle ==
    /\ max_length = 0
    /\ valid_opcodes = << >>
    /\ current_length = 0
    /\ current_combination_index = 0
    /\ current_sequences = << >>
    /\ gen_crashed = FALSE
    /\ next_result = NoResult
    /\ returned = {}
    /\ prev_len = 0
    /\ last_len = 0

\* SequenceGenerator::SequenceGenerator(): length 1, max 32, index 0, the
\* full opcode list, then reset()
GenInit ==
    /\ max_length = 32
    /\ valid_opcodes = getAllValidOpcodes
    /\ current_length = 1
    /\ current_combination_index = 0
    /\ \E out \in generateSequencesOfLength(getAllValidOpcodes, 1) :
         /\ current_sequences = out.sequences
         /\ gen_crashed = out.crashed
    /\ next_result = NoResult
    /\ returned = {}
    /\ prev_len = 0
    /\ last_len = 0

GenNext ==
    \/ reset /\ UNCHANGED <<memVars, cpuVars, matchVars, cacheVars, substVars,
                     searchVars, tgVars, sgVars, wkVars>>
    \/ (\E ops \in Alphabets : setValidOpcodes(ops))
          /\ UNCHANGED <<memVars, cpuVars, matchVars, cacheVars, substVars,
                     searchVars, tgVars, sgVars, wkVars>>
    \/ (\E k \in 1..LengthBound : setMaxLength(k))
          /\ UNCHANGED <<memVars, cpuVars, matchVars, cacheVars, substVars,
                     searchVars, tgVars, sgVars, wkVars>>
    \/ next /\ UNCHANGED <<memVars, cpuVars, matchVars, cacheVars, substVars,
                     searchVars, tgVars, sgVars, wkVars>>

----------------------------------------------------------------------------
(* CPU6502 (cpu.hpp, cpu.cpp) *)

\* CPU6502::State(), the default state
NewState ==
    [ a |-> 0, x |-> 0, y |-> 0, sp |-> 255,
      c |-> FALSE, z |-> FALSE, i |-> FALSE, d |-> FALSE, b |-> FALSE,
      v |-> FALSE, n |-> FALSE, pc |-> 0 ]

\* ExecutionResult(), the default result
NewExecutionResult ==
    [ cycles |-> 0, instructions |-> 0, completed |-> FALSE, error |-> "NONE" ]

\* CPU6502::getInstructionCycles (page_cross = false)
getInstructionCycles(opcode) ==
    CASE opcode \in {169, 162, 160, 24, 56, 232, 200, 202, 136, 105, 201,
                     208, 240, 144, 176, 234}           -> 2
      [] opcode \in {133, 76}                            -> 3
      [] opcode \in {149, 141}                           -> 4
      [] opcode \in {157, 153, 230, 198}                 -> 5
      [] opcode = 0                                      -> 7
      [] OTHER                                           -> 2

\* CPU6502::updateZN
updateZN(st, value) == [st EXCEPT !.z = (value = 0), !.n = (value >= 128)]

\* static_cast<int8_t> of a byte
Int8(b) == IF b >= 128 THEN b - 256 ELSE b

\* bit 7 of a non-negative integer
Bit7(w) == (w \div 128) % 2 = 1

\* The machine while one instruction runs: CPU state, tracked memory, the
\* cycle counter and completed flag of the ExecutionResult, whether an
\* exception is propagating, and the value of the last read.
Machine(st, tm, res) ==
    [ st |-> st, tm |-> tm, cycles |-> res.cycles, completed |-> res.completed,
      threw |-> FALSE, val |-> 0 ]

\* `f` applied to the values of its arguments, each evaluated once
Apply(f(_), x) == CHOOSE y \in { f(v) : v \in {x} } : TRUE
Apply2(f(_, _), x1, x2) ==
    CHOOSE y \in { f(v1, v2) : v1 \in {x1}, v2 \in {x2} } : TRUE
Apply3(f(_, _, _), x1, x2, x3) ==
    CHOOSE y \in { f(v1, v2, v3) : v1 \in {x1}, v2 \in {x2}, v3 \in {x3} } : TRUE

\* memory.read(address) inside an instruction
mRead(M, address) ==
    Apply2(LAMBDA m, a :
             IF m.threw THEN m
             ELSE Apply(LAMBDA r : [m EXCEPT !.tm = r.tm, !.threw = r.threw,
                                             !.val = r.value],
                        TrackedRead(m.tm, a)),
           M, address)

\* memory.read(state.pc++): the increment happens before the call
mFetch(M) ==
    Apply(LAMBDA m :
            IF m.threw THEN m
            ELSE mRead([m EXCEPT !.st.pc = (@ + 1) % 65536], m.st.pc),
          M)

\* memory.write(address, value) inside an instruction
mWrite(M, address, value) ==
    Apply3(LAMBDA m, a, v :
             IF m.threw THEN m
             ELSE Apply(LAMBDA r : [m EXCEPT !.tm = r.tm, !.threw = r.threw],
                        TrackedWrite(m.tm, a, v)),
           M, address, value)

\* Memory::read16: read(address) | read(address + 1) << 8. The order in which
\* the two operands of | are evaluated is unspecified: hi_first picks it.
mRead16(M, address, hi_first) ==
    LET lo_addr == address
        hi_addr == (address + 1) % 65536
    IN  Apply(LAMBDA M1 :
            Apply(LAMBDA M2 :
                    LET lo == IF hi_first THEN M2.val ELSE M1.val
                        hi == IF hi_first THEN M1.val ELSE M2.val
                    IN  IF M2.threw THEN M2 ELSE [M2 EXCEPT !.val = lo + 256 * hi],
                  mRead(M1, IF hi_first THEN lo_addr ELSE hi_addr)),
            mRead(M, IF hi_first THEN hi_addr ELSE lo_addr))

\* an assignment to the CPU state, reached only when nothing threw before it
mSet(M, st) ==
    Apply(LAMBDA m : IF m.threw THEN m ELSE [m EXCEPT !.st = st], M)

\* a relative branch: the offset is fetched, then the branch is taken or not
mBranch(M, taken(_)) ==
    Apply(LAMBDA F :
            IF F.threw THEN F
            ELSE IF taken(F.st)
            THEN [F EXCEPT !.cycles = @ + 1,
                           !.st.pc = (@ + Int8(F.val) + 65536) % 65536]
            ELSE F,
          mFetch(M))

\* the switch of CPU6502::executeInstruction, after the opcode fetch O
executeOpcode(O, hi_first) ==
    LET opcode == O.val
        M      == [O EXCEPT !.cycles = @ + getInstructionCycles(opcode)]
        F      == mFetch(M)                         \* one operand byte
        W      == mRead16(M, M.st.pc, hi_first)     \* a two-byte operand
        P      == mSet(W, [W.st EXCEPT !.pc = (@ + 2) % 65536])
        R      == mRead(F, F.val)                   \* the zero-page cell
    IN
    IF O.threw THEN O
    ELSE CASE opcode = 169 ->                                   \* A9 LDA #
                mSet(F, updateZN([F.st EXCEPT !.a = F.val], F.val))
           [] opcode = 133 -> mWrite(F, F.val, F.st.a)          \* 85 STA zp
           [] opcode = 149 ->                                   \* 95 STA zp,X
                mWrite(F, (F.val + F.st.x) % 256, F.st.a)
           [] opcode = 141 -> mWrite(P, W.val, P.st.a)          \* 8D STA abs
           [] opcode = 157 ->                                   \* 9D STA abs,X
                mWrite(P, (W.val + P.st.x) % 65536, P.st.a)
           [] opcode = 153 ->                                   \* 99 STA abs,Y
                mWrite(P, (W.val + P.st.y) % 65536, P.st.a)
           [] opcode = 162 ->                                   \* A2 LDX #
                mSet(F, updateZN([F.st EXCEPT !.x = F.val], F.val))
           [] opcode = 160 ->                                   \* A0 LDY #
                mSet(F, updateZN([F.st EXCEPT !.y = F.val], F.val))
           [] opcode = 24  -> mSet(M, [M.st EXCEPT !.c = FALSE]) \* 18 CLC
           [] opcode = 56  -> mSet(M, [M.st EXCEPT !.c = TRUE])  \* 38 SEC
           [] opcode = 232 ->                                   \* E8 INX
                LET v == (M.st.x + 1) % 256 IN
                mSet(M, updateZN([M.st EXCEPT !.x = v], v))
           [] opcode = 200 ->                                   \* C8 INY
                LET v == (M.st.y + 1) % 256 IN
                mSet(M, updateZN([M.st EXCEPT !.y = v], v))
           [] opcode = 202 ->                                   \* CA DEX
                LET v == (M.st.x + 255) % 256 IN
                mSet(M, updateZN([M.st EXCEPT !.x = v], v))
           [] opcode = 136 ->                                   \* 88 DEY
                LET v == (M.st.y + 255) % 256 IN
                mSet(M, updateZN([M.st EXCEPT !.y = v], v))
           [] opcode = 230 ->                                   \* E6 INC zp
                LET v  == (R.val + 1) % 256
                    Wr == mWrite(R, F.val, v)
                IN  mSet(Wr, updateZN(Wr.st, v))
           [] opcode = 198 ->                                   \* C6 DEC zp
                LET v  == (R.val + 255) % 256
                    Wr == mWrite(R, F.val, v)
                IN  mSet(Wr, updateZN(Wr.st, v))
           [] opcode = 105 ->                                   \* 69 ADC #
                LET val == F.val
                    sum == F.st.a + val + (IF F.st.c THEN 1 ELSE 0)
                    st1 == [F.st EXCEPT
                              !.c = (sum > 255),
                              !.v = (Bit7(F.st.a) # Bit7(sum))
                                    /\ (Bit7(val) # Bit7(sum)),
                              !.a = sum % 256]
                IN  mSet(F, updateZN(st1, sum % 256))
           [] opcode = 201 ->                                   \* C9 CMP #
                LET val  == F.val
                    diff == (F.st.a - val + 65536) % 65536
                IN  mSet(F, [F.st EXCEPT !.c = (F.st.a >= val),
                                         !.z = (F.st.a = val),
                                         !.n = Bit7(diff)])
           [] opcode = 208 -> mBranch(M, LAMBDA st : ~st.z)     \* D0 BNE
           [] opcode = 240 -> mBranch(M, LAMBDA st : st.z)      \* F0 BEQ
           [] opcode = 144 -> mBranch(M, LAMBDA st : ~st.c)     \* 90 BCC
           [] opcode = 176 -> mBranch(M, LAMBDA st : st.c)      \* B0 BCS
           [] opcode = 76  -> mSet(W, [W.st EXCEPT !.pc = W.val]) \* 4C JMP
           [] opcode = 234 -> M                                 \* EA NOP
           [] opcode = 0   -> [M EXCEPT !.completed = TRUE]     \* 00 BRK
           [] OTHER        -> [M EXCEPT !.threw = TRUE]         \* default

\* CPU6502::executeInstruction: the opcode is fetched, then executed
executeInstruction(M0, hi_first) ==
    Apply(LAMBDA O : executeOpcode(O, hi_first), mFetch(M0))

\* a loop condition that lets one instruction too many run
loopContinues_Inclusive(instructions, max) == instructions <= max

\* the condition of the loop of CPU6502::execute
loopContinues(instructions, max) == instructions < max

----------------------------------------------------------------------------
(* OptimizationSpec (optimization_spec.hpp) *)

CPUState(a, x, y, sp) == [a |-> a, x |-> x, y |-> y, sp |-> sp]

FlagState(c, z, i, d, b, v, n) ==
    [c |-> c, z |-> z, i |-> i, d |-> d, b |-> b, v |-> v, n |-> n]

Registers == << "a", "x", "y", "sp" >>
Flags     == << "c", "z", "i", "d", "b", "v", "n" >>

----------------------------------------------------------------------------
(* VerificationEngine (verification_engine.cpp) *)

\* the boundary values of generateTestCases
test_values == << 0, 1, 127, 128, 255 >>
critical_values == { 0, 1, 127, 128, 255 }

\* more test cases than this are sampled down
TestCaseLimit == 100

\* the createVariations lambda: when `value` is ANY every test case is
\* replaced by one copy per test value, changed by `setter`
createVariations(test_cases, value, setter(_, _)) ==
    IF value.type = "ANY"
    THEN Flatten([ k \in 1..Len(test_cases) |->
             [ j \in 1..Len(test_values) |->
                 setter(test_cases[k], test_values[j]) ] ])
    ELSE test_cases

\* the cells of a list of regions in the order the loops visit them
CellsOf(regions) ==
    Flatten([ k \in 1..Len(regions) |->
        [ i \in 1..Len(regions[k].bytes) |->
            [ addr  |-> (regions[k].address + (i - 1)) % 65536,
              value |-> regions[k].bytes[i] ] ] ])

\* the memory_values of the base case: every EXACT input byte
RECURSIVE ExactMemoryValues(_, _)
ExactMemoryValues(cells, values) ==
    IF cells = << >> THEN values
    ELSE ExactMemoryValues(Tail(cells),
            IF Head(cells).value.type = "EXACT"
            THEN (Head(cells).addr :> Head(cells).value.exact_value) @@ values
            ELSE values)

\* the base test case: the defaults, overridden by the EXACT inputs
BaseTestCase(sp) ==
    LET reg(r, dflt) == IF sp.input_cpu[r].type = "EXACT"
                        THEN sp.input_cpu[r].exact_value ELSE dflt
        flag(f)      == IF sp.input_flags[f].type = "EXACT"
                        THEN sp.input_flags[f].exact_value # 0 ELSE FALSE
    IN  [ cpu |-> [ a |-> reg("a", 0), x |-> reg("x", 0), y |-> reg("y", 0),
                    sp |-> reg("sp", 255),
                    c |-> flag("c"), z |-> flag("z"), i |-> flag("i"),
                    d |-> flag("d"), b |-> flag("b"), v |-> flag("v"),
                    n |-> flag("n"), pc |-> 0 ],
          memory_values |-> ExactMemoryValues(CellsOf(sp.input_memory), << >>) ]

\* the variations for the ANY registers and flags, in the order of the calls
RegisterVariations(sp, base) ==
    LET t1  == createVariations(<< base >>, sp.input_cpu.a,
                   LAMBDA tc, val : [tc EXCEPT !.cpu.a = val])
        t2  == createVariations(t1, sp.input_cpu.x,
                   LAMBDA tc, val : [tc EXCEPT !.cpu.x = val])
        t3  == createVariations(t2, sp.input_cpu.y,
                   LAMBDA tc, val : [tc EXCEPT !.cpu.y = val])
        t4  == createVariations(t3, sp.input_cpu.sp,
                   LAMBDA tc, val : [tc EXCEPT !.cpu.sp = val])
        t5  == createVariations(t4, sp.input_flags.c,
                   LAMBDA tc, val : [tc EXCEPT !.cpu.c = (val # 0)])
        t6  == createVariations(t5, sp.input_flags.z,
                   LAMBDA tc, val : [tc EXCEPT !.cpu.z = (val # 0)])
        t7  == createVariations(t6, sp.input_flags.i,
                   LAMBDA tc, val : [tc EXCEPT !.cpu.i = (val # 0)])
        t8  == createVariations(t7, sp.input_flags.d,
                   LAMBDA tc, val : [tc EXCEPT !.cpu.d = (val # 0)])
        t9  == createVariations(t8, sp.input_flags.b,
                   LAMBDA tc, val : [tc EXCEPT !.cpu.b = (val # 0)])
        t10 == createVariations(t9, sp.input_flags.v,
                   LAMBDA tc, val : [tc EXCEPT !.cpu.v = (val # 0)])
    IN  createVariations(t10, sp.input_flags.n,
                   LAMBDA tc, val : [tc EXCEPT !.cpu.n = (val # 0)])

\* "affects output": the address is EXACT or SAME in some output region
affects_output(sp, addr) ==
    \E k \in 1..Len(sp.output_memory) :
        /\ containsAddress(sp.output_memory[k], addr)
        /\ sp.output_memory[k].bytes[addr - sp.output_memory[k].address + 1].type
               \in {"EXACT", "SAME"}

\* the variations for the ANY memory bytes, cell by cell
RECURSIVE MemoryVariations(_, _, _)
MemoryVariations(sp, cells, test_cases) ==
    IF cells = << >> THEN test_cases
    ELSE LET addr == Head(cells).addr
             skip == \/ Head(cells).value.type = "EXACT"
                     \/ \E k \in 1..Len(test_cases) :
                            addr \in DOMAIN test_cases[k].memory_values
         IN  MemoryVariations(sp, Tail(cells),
                 IF ~skip /\ affects_output(sp, addr)
                 THEN createVariations(test_cases, ANY,
                          LAMBDA tc, val :
                              [tc EXCEPT !.memory_values = (addr :> val) @@ @])
                 ELSE test_cases)

\* a test case that uses a critical value in memory or in A, X or Y
is_critical(tc) ==
    \/ \E addr \in DOMAIN tc.memory_values :
           tc.memory_values[addr] \in critical_values
    \/ tc.cpu.a \in critical_values
    \/ tc.cpu.x \in critical_values
    \/ tc.cpu.y \in critical_values

\* the subsequences of `s` with `k` elements, order kept: what std::sample
\* with a generator seeded from std::random_device can return
Samples(s, k) ==
    { [ j \in 1..k |->
          s[ CHOOSE i \in I : Cardinality({ h \in I : h < i }) = j - 1 ] ] :
        I \in { J \in SUBSET (1..Len(s)) : Cardinality(J) = k } }

\* VerificationEngine::generateTestCases: the set of vectors it can return
generateTestCases(sp) ==
    LET test_cases == MemoryVariations(sp, CellsOf(sp.input_memory),
                          RegisterVariations(sp, BaseTestCase(sp)))
        critical_cases == SelectSeq(test_cases, is_critical)
        other_cases    == SelectSeq(test_cases, LAMBDA tc : ~is_critical(tc))
        \* 100 - critical_cases.size() is computed in size_t
        sample_size == IF Len(critical_cases) > TestCaseLimit
                       THEN Len(other_cases)
                       ELSE Min(TestCaseLimit - Len(critical_cases),
                                Len(other_cases))
    IN  IF Len(test_cases) > TestCaseLimit
        THEN { critical_cases \o sampled :
                  sampled \in Samples(other_cases, sample_size) }
        ELSE { test_cases }

\* matchesCPUState without the SAME comparisons
matchesCPUState_NoSame(actual, tc, expected_cpu, expected_flags) ==
    /\ \A k \in 1..Len(Registers) :
         ~(expected_cpu[Registers[k]].type = "EXACT"
           /\ actual[Registers[k]] # expected_cpu[Registers[k]].exact_value)
    /\ \A k \in 1..Len(Flags) :
         ~(expected_flags[Flags[k]].type = "EXACT"
           /\ actual[Flags[k]] # (expected_flags[Flags[k]].exact_value # 0))

\* VerificationEngine::matchesCPUState
matchesCPUState(actual, tc, expected_cpu, expected_flags) ==
    /\ \A k \in 1..Len(Registers) :
         LET r == Registers[k] IN
         /\ ~(expected_cpu[r].type = "EXACT"
              /\ actual[r] # expected_cpu[r].exact_value)
         /\ ~(expected_cpu[r].type = "SAME" /\ actual[r] # tc.cpu[r])
    /\ \A k \in 1..Len(Flags) :
         LET f == Flags[k] IN
         /\ ~(expected_flags[f].type = "EXACT"
              /\ actual[f] # (expected_flags[f].exact_value # 0))
         /\ ~(expected_flags[f].type = "SAME" /\ actual[f] # tc.cpu[f])

\* VerificationEngine::matchesMemoryState, cell by cell; the reads go through
\* TrackedMemory::read, so they are recorded and can throw
RECURSIVE matchesMemoryCells(_, _, _)
matchesMemoryCells(tm, tc, cells) ==
    IF cells = << >> THEN [ok |-> TRUE, tm |-> tm]
    ELSE LET addr == Head(cells).addr
             val  == Head(cells).value
             r    == TrackedRead(tm, addr)
         IN  IF val.type = "EXACT"
             THEN IF r.threw \/ r.value # val.exact_value
                  THEN [ok |-> FALSE, tm |-> r.tm]
                  ELSE matchesMemoryCells(r.tm, tc, Tail(cells))
             ELSE IF val.type = "SAME"
             THEN IF \/ r.threw
                     \/ addr \notin DOMAIN tc.memory_values
                     \/ r.value # tc.memory_values[addr]
                  THEN [ok |-> FALSE, tm |-> r.tm]
                  ELSE matchesMemoryCells(r.tm, tc, Tail(cells))
             ELSE matchesMemoryCells(tm, tc, Tail(cells))

matchesMemoryState(tm, tc, expected) ==
    matchesMemoryCells(tm, tc, CellsOf(expected))

\* VerificationEngine::hasUnauthorizedModifications
hasUnauthorizedModifications(tm, allowed) ==
    \E addr \in tm.modified_addresses :
        ~\E k \in 1..Len(allowed) : containsAddress(allowed[k], addr)

\* runTest, the set-up: a new CPU with the test's state, a new memory with the
\* specification's regions, the test's bytes and then the candidate installed
RunTestMemory(sp, seq, tc) ==
    LET tm0 == [NewTrackedMemory EXCEPT !.input_regions = sp.input_memory,
                                        !.output_regions = sp.output_memory]
        tm1 == [tm0 EXCEPT !.memory = tc.memory_values]
    IN  [tm1 EXCEPT !.memory =
            [ a \in { (sp.run_address + i) % 65536 : i \in 0..(Len(seq) - 1) }
                |-> seq[((a - sp.run_address + 65536) % 65536) + 1] ] @@ @ ]

----------------------------------------------------------------------------
(* One test run: VerificationEngine::runTest around CPU6502::execute *)

\* registers and flags with fixed inputs and free outputs
FixedCPU   == CPUState(EXACT(0), EXACT(0), EXACT(0), EXACT(255))
FreeCPU    == CPUState(ANY, ANY, ANY, ANY)
FixedFlags == FlagState(EXACT(0), EXACT(0), EXACT(0), EXACT(0), EXACT(0),
                        EXACT(0), EXACT(0))
FreeFlags  == FlagState(ANY, ANY, ANY, ANY, ANY, ANY, ANY)

\* RegionLen bytes that may hold anything
AnyBytes == [ i \in 1..RegionLen |-> ANY ]

OptimizationSpec(run_address, input_cpu, input_memory, output_cpu, output_memory) ==
    [ run_address   |-> run_address,
      input_cpu     |-> input_cpu,
      input_flags   |-> FixedFlags,
      input_memory  |-> input_memory,
      output_cpu    |-> output_cpu,
      output_flags  |-> FreeFlags,
      output_memory |-> output_memory ]

\* the specifications explored, all run at $2000:
\*  - the code is readable, $20 is an input and must end as 1
\*  - the code is not in any input region
\*  - the code is readable and writable, $3000 is an output, A must end as 1
Specs ==
    { OptimizationSpec(8192, FixedCPU,
          << MemoryRegion(8192, AnyBytes), MemoryRegion(32, << ANY >>) >>,
          FreeCPU,
          << MemoryRegion(32, << EXACT(1) >>) >>),
      OptimizationSpec(8192, [FixedCPU EXCEPT !.a = ANY],
          << MemoryRegion(32, << ANY >>) >>,
          FreeCPU,
          << MemoryRegion(12288, << ANY >>) >>),
      OptimizationSpec(8192, FixedCPU,
          << MemoryRegion(8192, AnyBytes) >>,
          [FreeCPU EXCEPT !.a = EXACT(1)],
          << MemoryRegion(8192, AnyBytes), MemoryRegion(12288, << ANY >>) >>) }

\* the candidates explored; every opcode of the interpreter occurs
Programs ==
    { << 0 >>,                  \* BRK
      << 234 >>,                \* NOP
      << 234, 0 >>,             \* NOP; BRK
      << 0, 232 >>,             \* BRK; INX
      << 2 >>,                  \* not an opcode
      << 169, 1 >>,             \* LDA #1
      << 169, 1, 0 >>,          \* LDA #1; BRK
      << 169, 1, 133, 32 >>,    \* LDA #1; STA $20
      << 133, 32, 0 >>,         \* STA $20; BRK
      << 149, 32 >>,            \* STA $20,X
      << 141, 0, 48 >>,         \* STA $3000
      << 141, 0, 32 >>,         \* STA $2000
      << 141, 0, 1 >>,          \* STA $0100
      << 157, 0, 48 >>,         \* STA $3000,X
      << 153, 0, 48 >>,         \* STA $3000,Y
      << 162, 1 >>,             \* LDX #1
      << 160, 128 >>,           \* LDY #$80
      << 24 >>,                 \* CLC
      << 56, 176, 1 >>,         \* SEC; BCS +1
      << 232 >>,                \* INX
      << 200 >>,                \* INY
      << 202 >>,                \* DEX
      << 136 >>,                \* DEY
      << 230, 32 >>,            \* INC $20
      << 198, 32 >>,            \* DEC $20
      << 105, 255 >>,           \* ADC #$FF
      << 201, 0 >>,             \* CMP #0
      << 208, 254 >>,           \* BNE -2
      << 208, 253 >>,           \* BNE -3, into the page below
      << 240, 0 >>,             \* BEQ +0
      << 144, 254 >>,           \* BCC -2
      << 76, 0, 32 >>,          \* JMP $2000
      << 76, 0, 48 >> }         \* JMP $3000

\* runTest calls execute() without a limit, so the default applies:
\* SIZE_MAX, which the model sets at InstrBound
DefaultMaxInstructions == InstrBound

NoTest == [ cpu |-> NewState, memory_values |-> << >> ]

\* no run is in progress
CpuIdle ==
    /\ phase = "idle"
    /\ spec = OptimizationSpec(0, FixedCPU, << >>, FreeCPU, << >>)
    /\ candidate = << >>
    /\ test = NoTest
    /\ state = NewState
    /\ memory = NewTrackedMemory
    /\ execResult = NewExecutionResult
    /\ max_instructions = 0
    /\ test_passed = FALSE
    /\ brk_at = 0

CpuInit == CpuIdle

\* runTest up to the call of execute(), and the first statements of execute():
\* the CPU gets the test's state, the memory the regions of the specification,
\* the test's bytes and the candidate; the program counter is set
runTestSetup(sp, seq, tc, max) ==
    /\ phase' = "running"
    /\ spec' = sp
    /\ candidate' = seq
    /\ test' = tc
    /\ max_instructions' = max
    /\ memory' = RunTestMemory(sp, seq, tc)
    /\ state' = [tc.cpu EXCEPT !.pc = sp.run_address]
    /\ execResult' = NewExecutionResult
    /\ test_passed' = FALSE
    /\ brk_at' = 0

\* one iteration of the loop of execute(): an instruction runs to its end, or
\* an exception ends execute() with INVALID_INSTRUCTION
ExecStep ==
    /\ phase = "running"
    /\ loopContinues(execResult.instructions, max_instructions)
    /\ \E hi_first \in BOOLEAN :
       \E M \in { executeInstruction(Machine(state, memory, execResult),
                                     hi_first) } :
         LET opcode == Stored(memory, state.pc)
         IN  /\ state' = M.st
             /\ memory' = M.tm
             /\ IF M.threw
                THEN /\ execResult' = [execResult EXCEPT
                                          !.cycles = M.cycles,
                                          !.completed = M.completed,
                                          !.error = "INVALID_INSTRUCTION"]
                     /\ phase' = "returned"
                     /\ UNCHANGED brk_at
                ELSE /\ execResult' = [execResult EXCEPT
                                          !.cycles = M.cycles,
                                          !.completed = M.completed,
                                          !.instructions = @ + 1]
                     /\ phase' = "running"
                     /\ brk_at' = IF brk_at = 0 /\ opcode = 0
                                  THEN execResult.instructions + 1
                                  ELSE brk_at
    /\ UNCHANGED <<spec, candidate, test, max_instructions, test_passed>>

\* the loop of execute() is left: the limit is reported, or the run completed
ExecReturn ==
    /\ phase = "running"
    /\ ~loopContinues(execResult.instructions, max_instructions)
    /\ execResult' =
          IF execResult.instructions >= max_instructions
          THEN [execResult EXCEPT !.error = "EXECUTION_LIMIT_REACHED"]
          ELSE [execResult EXCEPT !.completed = TRUE]
    /\ phase' = "returned"
    /\ UNCHANGED <<spec, candidate, test, state, memory, max_instructions,
                   test_passed, brk_at>>

\* runTest after execute(): an error fails the test, then the CPU state, the
\* memory state and the modified addresses are checked
runTestFinish ==
    /\ phase = "returned"
    /\ max_instructions = DefaultMaxInstructions
    /\ LET mm == matchesMemoryState(memory, test, spec.output_memory)
           cpu_ok == matchesCPUState(state, test, spec.output_cpu,
                                     spec.output_flags)
       IN  IF execResult.error # "NONE"
           THEN test_passed' = FALSE /\ UNCHANGED memory
           ELSE IF ~cpu_ok
           THEN test_passed' = FALSE /\ UNCHANGED memory
           ELSE /\ memory' = mm.tm
                /\ test_passed' =
                      ( mm.ok /\ ~hasUnauthorizedModifications(
                                     mm.tm, spec.output_memory) )
    /\ phase' = "done"
    /\ UNCHANGED <<spec, candidate, test, state, execResult, max_instructions,
                   brk_at>>

\* execute() was called with a limit of the caller's: it has returned
executeReturned ==
    /\ phase = "returned"
    /\ max_instructions # DefaultMaxInstructions
    /\ phase' = "done"
    /\ UNCHANGED <<spec, candidate, test, state, memory, execResult,
                   max_instructions, test_passed, brk_at>>

\* a run starts: any specification, candidate, test vector entry and limit
runTestCall ==
    /\ phase = "idle"
    /\ \E sp \in Specs, seq \in Programs, max \in 0..InstrBound :
         \E tcs \in generateTestCases(sp) :
           \E k \in 1..Len(tcs) : runTestSetup(sp, seq, tcs[k], max)

CpuNext ==
    \/ runTestCall     /\ UNCHANGED <<genVars, memVars, matchVars, cacheVars, substVars,
                     searchVars, tgVars, sgVars, wkVars>>
    \/ ExecStep        /\ UNCHANGED <<genVars, memVars, matchVars, cacheVars, substVars,
                     searchVars, tgVars, sgVars, wkVars>>
    \/ ExecReturn      /\ UNCHANGED <<genVars, memVars, matchVars, cacheVars, substVars,
                     searchVars, tgVars, sgVars, wkVars>>
    \/ runTestFinish   /\ UNCHANGED <<genVars, memVars, matchVars, cacheVars, substVars,
                     searchVars, tgVars, sgVars, wkVars>>
    \/ executeReturned /\ UNCHANGED <<genVars, memVars, matchVars, cacheVars, substVars,
                     searchVars, tgVars, sgVars, wkVars>>

----------------------------------------------------------------------------
(* matchesMemoryState applied to any final memory *)

\* specifications with EQU output bytes at $20..$21; the second one gives
\* the verifier no right to read the outputs back
MatchSpecs ==
    { OptimizationSpec(8192, FixedCPU,
          << MemoryRegion(32, << ANY, ANY >>) >>, FreeCPU,
          << MemoryRegion(32, << EQU, EXACT(1) >>) >>),
      OptimizationSpec(8192, FixedCPU,
          << >>, FreeCPU,
          << MemoryRegion(32, << EQU, EXACT(1) >>) >>),
      OptimizationSpec(8192, FixedCPU,
          << MemoryRegion(32, << ANY, ANY >>) >>, FreeCPU,
          << MemoryRegion(32, << EQU, SAME >>) >>),
      OptimizationSpec(8192, FixedCPU,
          << MemoryRegion(32, << ANY, ANY >>) >>, FreeCPU,
          << MemoryRegion(32, << EQU, EQU >>) >>) }

\* the addresses of the output bytes of a given type
OutputAddresses(sp, types) ==
    { c.addr : c \in { cell \in Range(CellsOf(sp.output_memory)) :
                          cell.value.type \in types } }

MatchIdle == match_result = "none" /\ reference = << >>

\* a run has ended with any bytes at the output addresses; the original code
\* block leaves any bytes at the EQU addresses
MatchInit ==
    /\ spec \in MatchSpecs
    /\ \E tcs \in generateTestCases(spec) : test \in Range(tcs)
    /\ \E final \in [ OutputAddresses(spec, {"EXACT", "ANY", "SAME", "EQU"})
                        -> 0..ByteBound ] :
         memory = [ RunTestMemory(spec, << >>, test)
                      EXCEPT !.memory = final @@ @ ]
    /\ reference \in [ OutputAddresses(spec, {"EQU"}) -> 0..ByteBound ]
    /\ candidate = << >>
    /\ state = [test.cpu EXCEPT !.pc = spec.run_address]
    /\ execResult = NewExecutionResult
    /\ max_instructions = DefaultMaxInstructions
    /\ phase = "returned"
    /\ test_passed = FALSE
    /\ brk_at = 0
    /\ match_result = "none"

\* the call of matchesMemoryState in runTest
matchMemory ==
    /\ match_result = "none"
    /\ LET mm == matchesMemoryState(memory, test, spec.output_memory) IN
         /\ match_result' = IF mm.ok THEN "true" ELSE "false"
         /\ memory' = mm.tm
    /\ UNCHANGED <<spec, candidate, test, state, execResult,
                   max_instructions, phase, test_passed, brk_at, reference>>

MatchNext ==
    matchMemory /\ UNCHANGED <<genVars, memVars, cacheVars, substVars,
                     searchVars, tgVars, sgVars, wkVars>>

----------------------------------------------------------------------------
(* matchesCPUState applied to any final CPU state *)

\* specifications whose register and flag outputs are EXACT, SAME and ANY in
\* turn; A and X are free inputs, so the test cases differ in them
MatchCpuSpecs ==
    { [ OptimizationSpec(8192, [FixedCPU EXCEPT !.a = ANY, !.x = ANY],
            << >>, ocpu, << >>) EXCEPT !.output_flags = oflags ] :
        ocpu \in { CPUState(SAME, EXACT(1), ANY, SAME),
                 CPUState(EXACT(0), SAME, SAME, EXACT(255)),
                 CPUState(ANY, ANY, EXACT(2), ANY) },
        oflags \in { FlagState(EXACT(1), SAME, ANY, EXACT(0),
                             SAME, ANY, EXACT(1)),
                 FlagState(SAME, EXACT(0), SAME, ANY, EXACT(1), SAME, ANY) } }

\* the final flags explored: those of the test case with any of C, Z, I, N
\* inverted, or with one of D, B, V inverted
FlippedFlags(cpu) ==
    { [ f \in Range(Flags) |-> IF f \in S THEN ~cpu[f] ELSE cpu[f] ] :
        S \in (SUBSET {"c", "z", "i", "n"}) \cup { {"d"}, {"b"}, {"v"} } }

\* the final CPU states explored
FinalStates(cpu) ==
    { [ a |-> fa, x |-> fx, y |-> fy, sp |-> fsp,
        c |-> ff.c, z |-> ff.z, i |-> ff.i, d |-> ff.d, b |-> ff.b,
        v |-> ff.v, n |-> ff.n, pc |-> 8192 ] :
        fa \in 0..ByteBound, fx \in 0..ByteBound, fy \in {0, 2},
        fsp \in {0, 255}, ff \in FlippedFlags(cpu) }

\* a run has ended without an error in any CPU state
MatchCpuInit ==
    /\ spec \in MatchCpuSpecs
    /\ \E tcs \in generateTestCases(spec) : test \in Range(tcs)
    /\ state \in FinalStates(test.cpu)
    /\ memory = RunTestMemory(spec, << >>, test)
    /\ reference = << >>
    /\ candidate = << >>
    /\ execResult = NewExecutionResult
    /\ max_instructions = DefaultMaxInstructions
    /\ phase = "returned"
    /\ test_passed = FALSE
    /\ brk_at = 0
    /\ match_result = "none"

\* the call of matchesCPUState in runTest
matchCPU ==
    /\ match_result = "none"
    /\ match_result' =
          IF matchesCPUState(state, test, spec.output_cpu, spec.output_flags)
          THEN "true" ELSE "false"
    /\ UNCHANGED <<spec, candidate, test, state, memory, execResult,
                   max_instructions, phase, test_passed, brk_at, reference>>

MatchCpuNext ==
    matchCPU /\ UNCHANGED <<genVars, memVars, cacheVars, substVars,
                     searchVars, tgVars, sgVars, wkVars>>

----------------------------------------------------------------------------
(* CPU6502::execute as a whole *)

\* the instruction at the program counter ends in the default case of the
\* switch; every other exception of a run is a memory-policy violation
unimplementedOpcode(st, tm) ==
    isReadAllowed(tm, st.pc) /\ Stored(tm, st.pc) \notin Range(getAllValidOpcodes)

\* the loop of execute() from the state `st` with the result so far `res`,
\* then the test after the loop; `violation` notes that the run was ended by
\* a memory-policy violation
RECURSIVE executeLoop(_, _, _, _, _)
executeLoop(st, tm, res, max, hi_first) ==
    IF loopContinues(res.instructions, max)
    THEN Apply(LAMBDA M :
                 IF M.threw
                 THEN \* the catch of execute(): nothing propagates
                      [ st |-> M.st, tm |-> M.tm,
                        result |-> [res EXCEPT
                                      !.cycles = M.cycles,
                                      !.completed = M.completed,
                                      !.error = "INVALID_INSTRUCTION"],
                        violation |-> ~unimplementedOpcode(st, tm) ]
                 ELSE executeLoop(M.st, M.tm,
                                  [res EXCEPT !.cycles = M.cycles,
                                              !.completed = M.completed,
                                              !.instructions = @ + 1],
                                  max, hi_first),
               executeInstruction(Machine(st, tm, res), hi_first))
    ELSE [ st |-> st, tm |-> tm,
           result |-> IF res.instructions >= max
                      THEN [res EXCEPT !.error = "EXECUTION_LIMIT_REACHED"]
                      ELSE [res EXCEPT !.completed = TRUE],
           violation |-> FALSE ]

\* CPU6502::execute(memory, start_address, max_instructions)
execute(st, tm, start_address, max, hi_first) ==
    executeLoop([st EXCEPT !.pc = start_address], tm, NewExecutionResult,
                max, hi_first)

\* the bytes of `sequence` installed from `address` on by initialize()
Install(tm, address, sequence) ==
    [tm EXCEPT !.memory =
        [ a \in { (address + i) % 65536 : i \in 0..(Len(sequence) - 1) }
            |-> sequence[((a - address + 65536) % 65536) + 1] ] @@ @ ]

\* VerificationEngine::getSize
getSize(sequence) == Len(sequence)

\* VerificationEngine::getCycles: the sequence runs at $1000 in a
\* TrackedMemory that was given no regions; the cycles of the result
getCycles(sequence, hi_first) ==
    execute([NewState EXCEPT !.pc = 4096],
            Install(NewTrackedMemory, 4096, sequence),
            4096, DefaultMaxInstructions, hi_first).result.cycles

----------------------------------------------------------------------------
(* TransformationCache (transformation_cache.hpp, transformation_cache.cpp) *)

\* a std::map without entries
NoEntries == << >>

\* StateDescription() and TransformationKey(): nothing recorded
EmptyState == [ registers |-> NoEntries, memory |-> NoEntries ]
EmptyKey   == [ input |-> EmptyState, output |-> EmptyState ]

\* add that never replaces the size-optimal slot
add_SizeSlotKept(c, key, sequence, cycles) ==
    IF key \notin DOMAIN c
    THEN (key :> [ size_optimal_sequence  |-> sequence,
                   size_optimal_cycles    |-> cycles,
                   cycle_optimal_sequence |-> sequence,
                   cycle_optimal_size     |-> Len(sequence) ]) @@ c
    ELSE IF cycles < Len(c[key].cycle_optimal_sequence)
    THEN [c EXCEPT ![key].cycle_optimal_sequence = sequence,
                   ![key].cycle_optimal_size = Len(sequence)]
    ELSE c

\* TransformationCache::add
add(c, key, sequence, cycles) ==
    IF key \notin DOMAIN c
    THEN (key :> [ size_optimal_sequence  |-> sequence,
                   size_optimal_cycles    |-> cycles,
                   cycle_optimal_sequence |-> sequence,
                   cycle_optimal_size     |-> Len(sequence) ]) @@ c
    ELSE LET e  == c[key]
             e1 == IF Len(sequence) < Len(e.size_optimal_sequence)
                   THEN [e EXCEPT !.size_optimal_sequence = sequence,
                                  !.size_optimal_cycles = cycles]
                   ELSE e
             e2 == IF cycles < Len(e1.cycle_optimal_sequence)
                   THEN [e1 EXCEPT !.cycle_optimal_sequence = sequence,
                                   !.cycle_optimal_size = Len(sequence)]
                   ELSE e1
         IN  [c EXCEPT ![key] = e2]

\* findOptimal that knows the size-optimal slot only
findOptimal_SizeOnly(c, key, optimize_for_size) ==
    IF key \notin DOMAIN c \/ ~optimize_for_size
    THEN [found |-> FALSE, sequence |-> << >>]
    ELSE [found |-> TRUE, sequence |-> c[key].size_optimal_sequence]

\* TransformationCache::findOptimal: std::nullopt, or the stored sequence
findOptimal(c, key, optimize_for_size) ==
    IF key \notin DOMAIN c
    THEN [found |-> FALSE, sequence |-> << >>]
    ELSE IF optimize_for_size
    THEN [found |-> TRUE, sequence |-> c[key].size_optimal_sequence]
    ELSE [found |-> TRUE, sequence |-> c[key].cycle_optimal_sequence]

----------------------------------------------------------------------------
(* Optimizer: transformation keys and cache substitution (optimizer.cpp) *)

\* the key extractTransformation builds after a run without error; the reads
\* of the modified addresses go through TrackedMemory::read and can throw
TransformationKey(sp, final_state, tm) ==
    LET exact == { k \in 1..Len(Registers) :
                     sp.input_cpu[Registers[k]].type = "EXACT" }
        name(r) == CASE r = "a" -> "A" [] r = "x" -> "X" [] r = "y" -> "Y"
                     [] OTHER -> "SP"
    IN  [ input |->
            [ registers |->
                [ n \in { name(Registers[k]) : k \in exact } |->
                    LET k == CHOOSE q \in exact : name(Registers[q]) = n
                    IN  sp.input_cpu[Registers[k]].exact_value ],
              memory |-> ExactMemoryValues(CellsOf(sp.input_memory),
                                           << >>) ],
          output |->
            [ registers |->
                [ n \in {"A", "X", "Y", "SP"} |->
                    CASE n = "A" -> final_state.a [] n = "X" -> final_state.x
                      [] n = "Y" -> final_state.y [] OTHER -> final_state.sp ],
              memory |-> [ addr \in tm.modified_addresses |->
                             Stored(tm, addr) ] ] ]

\* Optimizer::extractTransformation: the sequence runs from the EXACT inputs
\* in a TrackedMemory that was given no regions; any error gives the empty key
extractTransformation(sp, sequence, hi_first) ==
    LET initial_state == BaseTestCase(sp).cpu
        memory0 == [NewTrackedMemory EXCEPT !.memory =
                      ExactMemoryValues(CellsOf(sp.input_memory), << >>)]
    IN  Apply(LAMBDA run :
                IF run.result.error # "NONE" THEN EmptyKey
                ELSE IF \E addr \in run.tm.modified_addresses :
                           ~isReadAllowed(run.tm, addr)
                THEN EmptyKey
                ELSE TransformationKey(sp, run.st, run.tm),
              execute(initial_state,
                      Install(memory0, sp.run_address, sequence),
                      sp.run_address, DefaultMaxInstructions, hi_first))

\* Optimizer::extractSubsequenceTransformation
extractSubsequenceTransformation(sp, full_sequence, start, end, hi_first) ==
    extractTransformation(sp, SubSeq(full_sequence, start + 1, end), hi_first)

\* Optimizer::getInstructionSize (its own table, not the enumerator's)
getInstructionSize(opcode) ==
    IF opcode \in {1, 5, 6, 9, 16, 17, 21, 22, 33, 36, 37, 38, 41, 48, 49, 53,
                   54, 65, 69, 70, 73, 80, 81, 85, 86, 97, 101, 102, 105, 112,
                   113, 117, 118, 129, 132, 133, 134, 144, 145, 148, 149, 150,
                   160, 161, 162, 164, 165, 166, 169, 176, 177, 180, 181, 182,
                   192, 193, 196, 197, 198, 201, 208, 209, 213, 214, 224, 225,
                   228, 229, 230, 233, 240, 241, 245, 246} THEN 2
    ELSE IF opcode \in {13, 14, 25, 29, 30, 32, 44, 45, 46, 57, 61, 62, 76,
                        77, 78, 89, 93, 94, 108, 109, 110, 121, 125, 126, 140,
                        141, 142, 153, 157, 172, 173, 174, 185, 188, 189, 190,
                        204, 205, 206, 217, 221, 222, 236, 237, 238, 249, 253,
                        254} THEN 3
    ELSE 1

\* the loop of findInstructionBoundaries from byte position `pos`
RECURSIVE boundariesFrom(_, _)
boundariesFrom(sequence, pos) ==
    IF pos < Len(sequence)
    THEN LET after == pos + getInstructionSize(sequence[pos + 1])
         IN  (IF after <= Len(sequence) THEN << after >> ELSE << >>)
                \o boundariesFrom(sequence, after)
    ELSE << >>

\* Optimizer::findInstructionBoundaries
findInstructionBoundaries(sequence) == << 0 >> \o boundariesFrom(sequence, 0)

\* no call of optimizeWithCache is in progress
NoFrame ==
    [ phase |-> "idle", input |-> << >>, sequence |-> << >>,
      result |-> << >>, boundaries |-> << >>, i |-> 0, j |-> 0,
      optimized |-> FALSE, replacements |-> 0, kind |-> "none",
      before |-> << >>, after |-> << >> ]

\* optimizeWithCache from its first statement to the loop: the lookup of the
\* whole sequence, the boundaries, the test for short sequences
enterOptimizeWithCache(f, c, sp, g, sequence, hi_first) ==
    Apply2(LAMBDA cached, boundaries :
             IF cached.found /\ cached.sequence = sequence
             THEN \* the candidate itself comes back: nothing is replaced
                  [f EXCEPT !.phase = "returned", !.sequence = sequence,
                            !.result = cached.sequence]
             ELSE IF cached.found
             THEN [f EXCEPT !.phase = "returned", !.sequence = sequence,
                            !.result = cached.sequence,
                            !.replacements = @ + 1, !.kind = "whole",
                            !.before = sequence, !.after = cached.sequence]
             ELSE IF Len(boundaries) <= 2
             THEN [f EXCEPT !.phase = "returned", !.sequence = sequence,
                            !.result = sequence]
             ELSE [f EXCEPT !.phase = "loop", !.sequence = sequence,
                            !.result = sequence, !.boundaries = boundaries,
                            !.i = 0, !.j = 1, !.optimized = FALSE],
           findOptimal(c, extractTransformation(sp, sequence, hi_first),
                       g = "SIZE"),
           findInstructionBoundaries(sequence))

\* the two loop headers that do not advance
nextPair_NoAdvance(i, j, n) == [phase |-> "loop", i |-> i, j |-> j]

\* the two loop headers: j++ and its test, then i++ and its test; n is
\* boundaries.size()
nextPair(i, j, n) ==
    IF j + 1 < n THEN [phase |-> "loop", i |-> i, j |-> j + 1]
    ELSE IF i + 1 < n - 1 THEN [phase |-> "loop", i |-> i + 1, j |-> i + 2]
    ELSE [phase |-> "exit", i |-> i + 1, j |-> j + 1]

\* one pass through the body of the inner loop
pairOptimizeWithCache(f, c, sp, g, hi_first) ==
    LET start == f.boundaries[f.i + 1]
        end   == f.boundaries[f.j + 1]
        np    == nextPair(f.i, f.j, Len(f.boundaries))
    IN  IF end - start <= 2
        THEN [f EXCEPT !.phase = np.phase, !.i = np.i, !.j = np.j]
        ELSE Apply(LAMBDA replacement :
               IF replacement.found
                  /\ Len(replacement.sequence) < end - start
               THEN LET new_result ==
                          SubSeq(f.result, 1, start)
                            \o replacement.sequence
                            \o SubSeq(f.result, end + 1, Len(f.result))
                        bs == findInstructionBoundaries(new_result)
                    IN  \* i = 0; break; and then the i++ of the outer loop
                        [f EXCEPT
                           !.result = new_result, !.optimized = TRUE,
                           !.boundaries = bs, !.i = 1, !.j = 2,
                           !.phase = IF 1 < Len(bs) - 1 THEN "loop"
                                     ELSE "exit",
                           !.replacements = @ + 1, !.kind = "range",
                           !.before = f.result, !.after = new_result]
               ELSE [f EXCEPT !.phase = np.phase, !.i = np.i, !.j = np.j],
             findOptimal(c,
                         extractSubsequenceTransformation(
                             sp, f.sequence, start, end, hi_first),
                         g = "SIZE"))

\* after the loops: the recursive call on the result, or the return
exitOptimizeWithCache(f, c, sp, g, hi_first) ==
    IF f.optimized
    THEN enterOptimizeWithCache(f, c, sp, g, f.result, hi_first)
    ELSE [f EXCEPT !.phase = "returned"]

\* a call of optimizeWithCache from the frame `f` to its return
RECURSIVE finishOptimizeWithCache(_, _, _, _, _)
finishOptimizeWithCache(f, c, sp, g, hi_first) ==
    IF f.phase = "returned" THEN f
    ELSE IF f.phase = "loop"
    THEN finishOptimizeWithCache(pairOptimizeWithCache(f, c, sp, g, hi_first),
                                 c, sp, g, hi_first)
    ELSE finishOptimizeWithCache(exitOptimizeWithCache(f, c, sp, g, hi_first),
                                 c, sp, g, hi_first)

\* Optimizer::optimizeWithCache(sequence)
optimizeWithCache(c, sp, g, sequence, hi_first) ==
    finishOptimizeWithCache(
        enterOptimizeWithCache([NoFrame EXCEPT !.input = sequence],
                               c, sp, g, sequence, hi_first),
        c, sp, g, hi_first).result

----------------------------------------------------------------------------
(* The cache and cache substitution on their own *)

\* at most this many add() calls are explored
AddBound == 2

\* the cycle counts handed to add() are 0..CycleBound
CycleBound == 2

\* the sequences handed to add() and to optimizeWithCache:
\* INX;  LDX #0;  LDX #0, INX, INX
CacheSequences == { << 232 >>, << 162, 0 >>, << 162, 0, 232, 232 >> }

\* the keys handed to add(): the empty key, and the key of a run that ended
\* without error in the default state
CacheKeys ==
    { EmptyKey,
      TransformationKey(OptimizationSpec(8192, FixedCPU, << >>, FreeCPU, << >>),
                        NewState, NewTrackedMemory) }

NoCacheOp ==
    [ op |-> "none", key |-> EmptyKey, optimize_for_size |-> FALSE,
      found |-> FALSE, sequence |-> << >> ]

\* the cache is empty and unused
CacheIdle ==
    /\ cache = NoEntries
    /\ added = NoEntries
    /\ adds = 0
    /\ cache_op = NoCacheOp

SubstIdle == goal = "SIZE" /\ owc = NoFrame

\* the call cache.add(key, sequence, cycles); the frame of a call of
\* optimizeWithCache that has returned is gone
CacheAdd(key, sequence, cycles) ==
    /\ owc.phase \in {"idle", "returned"}
    /\ adds < AddBound
    /\ adds' = adds + 1
    /\ cache' = add(cache, key, sequence, cycles)
    /\ added' =
          LET p   == [size |-> Len(sequence), cycles |-> cycles]
              own == \A hi_first \in BOOLEAN :
                        key = extractTransformation(spec, sequence, hi_first)
          IN  IF key \notin DOMAIN added
              THEN (key :> [ pairs |-> {p}, cycle_optimal_cycles |-> cycles,
                             own_key |-> own ]) @@ added
              ELSE [added EXCEPT ![key] =
                      [ pairs |-> @.pairs \cup {p},
                        cycle_optimal_cycles |->
                            IF cycles < Len(cache[key].cycle_optimal_sequence)
                            THEN cycles ELSE @.cycle_optimal_cycles,
                        own_key |-> @.own_key /\ own ]]
    /\ cache_op' = [ op |-> "add", key |-> key, optimize_for_size |-> FALSE,
                     found |-> FALSE, sequence |-> sequence ]
    /\ owc' = NoFrame
    /\ UNCHANGED goal

\* the call cache.findOptimal(key, optimize_for_size)
CacheFindOptimal(key, optimize_for_size) ==
    /\ owc.phase \in {"idle", "returned"}
    /\ LET r == findOptimal(cache, key, optimize_for_size) IN
         cache_op' = [ op |-> "findOptimal", key |-> key,
                       optimize_for_size |-> optimize_for_size,
                       found |-> r.found, sequence |-> r.sequence ]
    /\ owc' = NoFrame
    /\ UNCHANGED <<cache, added, adds, goal>>

\* the call cache.clear()
CacheClear ==
    /\ owc.phase \in {"idle", "returned"}
    /\ cache # NoEntries
    /\ cache' = NoEntries
    /\ added' = NoEntries
    /\ cache_op' = [NoCacheOp EXCEPT !.op = "clear"]
    /\ owc' = NoFrame
    /\ UNCHANGED <<adds, goal>>

\* the call optimizeWithCache(sequence) of optimize()
owcCall(sequence) ==
    /\ owc.phase \in {"idle", "returned"}
    /\ \E hi_first \in BOOLEAN :
         owc' = enterOptimizeWithCache([NoFrame EXCEPT !.input = sequence],
                                       cache, spec, goal, sequence, hi_first)
    /\ cache_op' = NoCacheOp
    /\ UNCHANGED <<cache, added, adds, goal>>

\* one pass through the inner loop of optimizeWithCache
owcPair ==
    /\ owc.phase = "loop"
    /\ \E hi_first \in BOOLEAN :
         owc' = pairOptimizeWithCache(owc, cache, spec, goal, hi_first)
    /\ UNCHANGED <<cache, added, adds, cache_op, goal>>

\* after the loops: the recursive call on the result, or the return
owcExit ==
    /\ owc.phase = "exit"
    /\ \E hi_first \in BOOLEAN :
         owc' = exitOptimizeWithCache(owc, cache, spec, goal, hi_first)
    /\ UNCHANGED <<cache, added, adds, cache_op, goal>>

\* any calls on the cache, and cache substitution on any cache content
CacheInit ==
    /\ CacheIdle
    /\ goal \in {"SIZE", "SPEED"}
    /\ owc = NoFrame

CacheNext ==
    \/ (\E key \in CacheKeys, sequence \in CacheSequences,
           cycles \in 0..CycleBound : CacheAdd(key, sequence, cycles))
          /\ UNCHANGED <<genVars, memVars, cpuVars, matchVars, searchVars, tgVars, sgVars, wkVars>>
    \/ (\E key \in CacheKeys, optimize_for_size \in BOOLEAN :
           CacheFindOptimal(key, optimize_for_size))
          /\ UNCHANGED <<genVars, memVars, cpuVars, matchVars, searchVars, tgVars, sgVars, wkVars>>
    \/ CacheClear /\ UNCHANGED <<genVars, memVars, cpuVars, matchVars, searchVars, tgVars, sgVars, wkVars>>
    \/ (\E sequence \in CacheSequences : owcCall(sequence))
          /\ UNCHANGED <<genVars, memVars, cpuVars, matchVars, searchVars, tgVars, sgVars, wkVars>>
    \/ owcPair /\ UNCHANGED <<genVars, memVars, cpuVars, matchVars, searchVars, tgVars, sgVars, wkVars>>
    \/ owcExit /\ UNCHANGED <<genVars, memVars, cpuVars, matchVars, searchVars, tgVars, sgVars, wkVars>>

----------------------------------------------------------------------------
(* VerificationEngine::verify and Optimizer::optimize (optimizer.cpp), main *)

\* runTest that does not look at the error of the run
runTest_ErrorsIgnored(sp, sequence, tc, hi_first) ==
    Apply(LAMBDA run :
            [ ok |-> /\ matchesCPUState(run.st, tc, sp.output_cpu,
                                     sp.output_flags)
                  /\ Apply(LAMBDA mm :
                             mm.ok /\ ~hasUnauthorizedModifications(
                                          mm.tm, sp.output_memory),
                           matchesMemoryState(run.tm, tc, sp.output_memory)),
              violation |-> run.violation ],
          execute(tc.cpu, RunTestMemory(sp, sequence, tc),
                  sp.run_address, DefaultMaxInstructions, hi_first))

\* VerificationEngine::runTest as a whole: what it returns, and whether the
\* run was ended by a memory-policy violation. An exception of the checks
\* after the run ends in the catch of runTest and gives false as well.
runTest(sp, sequence, tc, hi_first) ==
    Apply(LAMBDA run :
            [ ok |-> /\ run.result.error = "NONE"
                  /\ matchesCPUState(run.st, tc, sp.output_cpu,
                                     sp.output_flags)
                  /\ Apply(LAMBDA mm :
                             mm.ok /\ ~hasUnauthorizedModifications(
                                          mm.tm, sp.output_memory),
                           matchesMemoryState(run.tm, tc, sp.output_memory)),
              violation |-> run.violation ],
          execute(tc.cpu, RunTestMemory(sp, sequence, tc),
                  sp.run_address, DefaultMaxInstructions, hi_first))

\* the loop of verify() from test case k on: the first failing case ends it.
\* `violation` tells whether one of the runs made was ended by a violation of
\* the memory policy.
RECURSIVE verifyFrom(_, _, _, _, _)
verifyFrom(sp, sequence, test_cases, k, hi_first) ==
    IF k > Len(test_cases) THEN [ok |-> TRUE, violation |-> FALSE]
    ELSE Apply(LAMBDA r :
                 IF ~r.ok THEN [ok |-> FALSE, violation |-> r.violation]
                 ELSE [ verifyFrom(sp, sequence, test_cases, k + 1, hi_first)
                        EXCEPT !.violation = @ \/ r.violation ],
               runTest(sp, sequence, test_cases[k], hi_first))

\* VerificationEngine::verify on the test cases generateTestCases() gave it
verify(sp, sequence, test_cases, hi_first) ==
    verifyFrom(sp, sequence, test_cases, 1, hi_first)

\* std::numeric_limits<size_t>::max(), cut to the integers of the model; it
\* is above every metric
SIZE_MAX == 2147483647

\* the cache statement of optimize() that never looks at the verdict
cacheAfterVerify_Always(c, ok, stops, key, optimized, cycles) ==
    add(c, key, optimized, cycles)

\* the cache after the body of the loop: cache.add is inside
\* `if (verifier.verify(optimized))` and behind the break of goal SIZE
cacheAfterVerify(c, ok, stops, key, optimized, cycles) ==
    IF ok /\ ~stops THEN add(c, key, optimized, cycles) ELSE c

\* main that always reports success
exitCode_Zero(solution) == 0

\* main after optimize(): 1 for an empty solution, else the solution is
\* written out and 0 is returned (the output format and file are valid)
exitCode(solution) == IF solution = << >> THEN 1 ELSE 0

\* nothing is known of a last candidate
NoRound ==
    [ phase |-> "idle", candidate |-> << >>, optimized |-> << >>,
      verify |-> FALSE, violation |-> FALSE, cache_before |-> << >>,
      rejected |-> {}, ended_by |-> "none" ]

\* optimize() has not been called
SearchIdle ==
    /\ search = NoRound
    /\ best_solution = << >>
    /\ best_metric = 0
    /\ done = FALSE
    /\ sequences_tested = 0
    /\ valid_sequences_found = 0
    /\ deadline_passed = FALSE
    /\ exit_code = 0
    /\ verified = {}

\* optimize() up to its loop. The opcode list handed to the enumerator is
\* getAllValidOpcodes() in the code; the model explores the search over the
\* small alphabet `opcodes`.
optimizeStart(opcodes) ==
    /\ search.phase = "idle"
    /\ ~gen_crashed
    /\ max_length' = 32
    /\ valid_opcodes' = opcodes
    /\ \E out \in generateSequencesOfLength(opcodes, 1) : resetTo(out)
    /\ prev_len' = 0 /\ last_len' = 0
    /\ cache' = NoEntries
    /\ best_solution' = << >>
    /\ best_metric' = SIZE_MAX
    /\ sequences_tested' = 0
    /\ valid_sequences_found' = 0
    /\ done' = FALSE
    /\ search' = [NoRound EXCEPT
                     !.phase = IF gen_crashed' THEN "crashed" ELSE "loop"]
    /\ UNCHANGED <<deadline_passed, exit_code, verified, added, adds,
                   cache_op, goal, owc>>

\* the deadline passes while the search runs
deadlinePasses ==
    /\ search.phase \in {"loop", "body"}
    /\ ~deadline_passed
    /\ deadline_passed' = TRUE
    /\ UNCHANGED <<search, best_solution, best_metric, done, sequences_tested,
                   valid_sequences_found, exit_code, verified, genVars,
                   cacheVars, substVars>>

\* the check that never sees the deadline
timedOut_Never(passed) == FALSE

\* `now > end_time` at the check between candidates
timedOut(passed) == passed

\* the head of the loop: !done && generator.next(candidate), then the check
\* of the deadline
searchNext ==
    /\ search.phase = "loop"
    /\ IF done
       THEN /\ search' = [search EXCEPT !.phase = "returned",
                                        !.ended_by = "done"]
            /\ UNCHANGED genVars
       ELSE /\ next
            /\ search' =
                 IF gen_crashed'
                 THEN [search EXCEPT !.phase = "crashed"]
                 ELSE IF ~next_result'.ok
                 THEN [search EXCEPT !.phase = "returned",
                                     !.ended_by = "exhausted"]
                 ELSE IF timedOut(deadline_passed)
                 THEN [search EXCEPT !.phase = "returned",
                                     !.ended_by = "deadline"]
                 ELSE [search EXCEPT !.phase = "body",
                                     !.candidate = next_result'.sequence]
    /\ UNCHANGED <<best_solution, best_metric, done, sequences_tested,
                   valid_sequences_found, deadline_passed, exit_code,
                   verified, cacheVars, substVars>>

\* the comparison that does not ask whether the candidate was verified
isBetter_Unverified(ok, metric, best) == metric < best

\* `if (verifier.verify(optimized))` and `if (metric < best_metric)`
isBetter(ok, metric, best) == ok /\ metric < best

\* the body of the loop from the answer `v` of verifier.verify(optimized) on:
\* the counters, the best solution, the window of goal SPEED, the cache
loopBody(optimized, v, hi_first) ==
    \E cycles \in { getCycles(optimized, hi_first) } :
    \E key \in { extractTransformation(spec, optimized, hi_first) } :
    \E metric \in { IF goal = "SIZE" THEN getSize(optimized) ELSE cycles } :
    \E better \in { isBetter(v.ok, metric, best_metric) } :
    \E stops \in { better /\ goal = "SIZE" } :
        /\ sequences_tested' = sequences_tested + 1
        /\ valid_sequences_found' =
              IF v.ok THEN valid_sequences_found + 1
              ELSE valid_sequences_found
        /\ verified' = IF v.ok THEN verified \cup {optimized} ELSE verified
        /\ best_solution' = IF better THEN optimized ELSE best_solution
        /\ best_metric' = IF better THEN metric ELSE best_metric
        /\ IF better /\ goal = "SPEED"
           THEN setMaxLength(Len(optimized) + 4)
           ELSE UNCHANGED genVars
        \* optimized.size() > best_solution.size() + 4 compares the new best
        \* solution with itself
        /\ done' = ( stops \/ ( better /\ goal = "SPEED"
                                /\ Len(optimized) > Len(optimized) + 4 ) )
        /\ cache' = cacheAfterVerify(cache, v.ok, stops, key, optimized,
                                     cycles)
        /\ search' = [search EXCEPT
                         !.phase = IF stops THEN "returned" ELSE "loop",
                         !.ended_by = IF stops THEN "done" ELSE @,
                         !.optimized = optimized,
                         !.verify = v.ok,
                         !.violation = v.violation,
                         !.rejected = IF v.ok THEN @ ELSE @ \cup {optimized},
                         !.cache_before = cache]
        /\ UNCHANGED <<deadline_passed, exit_code, added, adds, cache_op,
                       goal, owc>>

\* the body of the loop: cache substitution, verification, and the rest
searchBody ==
    /\ search.phase = "body"
    /\ \E hi_first \in BOOLEAN : \E test_cases \in generateTestCases(spec) :
       \E optimized \in { optimizeWithCache(cache, spec, goal,
                                            search.candidate, hi_first) } :
       \E v \in { verify(spec, optimized, test_cases, hi_first) } :
           loopBody(optimized, v, hi_first)

\* the answers the verifier may give for a sequence: the one it gave before
Verdicts(sequence) ==
    IF sequence \in verified THEN {TRUE}
    ELSE IF sequence \in search.rejected THEN {FALSE}
    ELSE BOOLEAN

\* the body of the loop with the answer of the verifier as an input
optimizeBody ==
    /\ search.phase = "body"
    /\ \E hi_first \in BOOLEAN :
       \E optimized \in { optimizeWithCache(cache, spec, goal,
                                            search.candidate, hi_first) } :
       \E ok \in Verdicts(optimized) :
           loopBody(optimized, [ok |-> ok, violation |-> FALSE], hi_first)

\* optimize() returns best_solution to main, which ends the process
mainReturn ==
    /\ search.phase = "returned"
    /\ exit_code' = exitCode(best_solution)
    /\ search' = [search EXCEPT !.phase = "exited"]
    /\ UNCHANGED <<best_solution, best_metric, done, sequences_tested,
                   valid_sequences_found, deadline_passed, verified, genVars,
                   cacheVars, substVars>>

\* the specification and the goal of a search, and the enumerator as its
\* constructor leaves it
SearchInit(specs) ==
    /\ SearchIdle
    /\ spec \in specs
    /\ goal \in {"SIZE", "SPEED"}
    /\ owc = NoFrame
    /\ candidate = << >>
    /\ test = NoTest
    /\ state = NewState
    /\ memory = NewTrackedMemory
    /\ execResult = NewExecutionResult
    /\ max_instructions = 0
    /\ phase = "idle"
    /\ test_passed = FALSE
    /\ brk_at = 0

SearchNext ==
    \/ (\E opcodes \in Alphabets : optimizeStart(opcodes))
                      /\ UNCHANGED <<memVars, cpuVars, matchVars, tgVars, sgVars, wkVars>>
    \/ deadlinePasses /\ UNCHANGED <<memVars, cpuVars, matchVars, tgVars, sgVars, wkVars>>
    \/ searchNext     /\ UNCHANGED <<memVars, cpuVars, matchVars, tgVars, sgVars, wkVars>>
    \/ searchBody     /\ UNCHANGED <<memVars, cpuVars, matchVars, tgVars, sgVars, wkVars>>
    \/ mainReturn     /\ UNCHANGED <<memVars, cpuVars, matchVars, tgVars, sgVars, wkVars>>

\* the alphabets of a search whose verdicts are open
OptimizeAlphabets == { <<162>>, <<162, 232>> }

\* its specification: X is to be 0 at the end, whatever it was
OptimizeSpecs ==
    { OptimizationSpec(8192, [FixedCPU EXCEPT !.x = ANY],
          << MemoryRegion(8192, AnyBytes) >>,
          [FreeCPU EXCEPT !.x = EXACT(0)],
          << >>) }

\* the specification "register preservation": A and X are inputs of any
\* value (Y, SP and the flags are given), the block at $1000 is empty, A is
\* to stay and X is to end as $05
RegisterPreservation ==
    { OptimizationSpec(4096, [FixedCPU EXCEPT !.a = ANY, !.x = ANY], << >>,
                       [FreeCPU EXCEPT !.a = SAME, !.x = EXACT(5)], << >>) }

OptimizeNext ==
    \/ (\E opcodes \in OptimizeAlphabets : optimizeStart(opcodes))
                      /\ UNCHANGED <<memVars, cpuVars, matchVars, tgVars, sgVars, wkVars>>
    \/ deadlinePasses /\ UNCHANGED <<memVars, cpuVars, matchVars, tgVars, sgVars, wkVars>>
    \/ searchNext     /\ UNCHANGED <<memVars, cpuVars, matchVars, tgVars, sgVars, wkVars>>
    \/ optimizeBody   /\ UNCHANGED <<memVars, cpuVars, matchVars, tgVars, sgVars, wkVars>>
    \/ mainReturn     /\ UNCHANGED <<memVars, cpuVars, matchVars, tgVars, sgVars, wkVars>>

----------------------------------------------------------------------------
(* VerificationEngine::generateTestCases, call after call *)

\* at most this many calls of generateTestCases() are explored
CallBound == 2

\* the outcomes of std::sample explored for a long vector: the runs of k
\* consecutive elements of s, wrapping round at its end, in the order of s.
\* (With its generator seeded from std::random_device, std::sample can
\* return every subsequence of k elements.)
SampleRuns(s, k) ==
    IF k >= Len(s) THEN { s }
    ELSE { IF first + k - 1 <= Len(s)
           THEN SubSeq(s, first, first + k - 1)
           ELSE SubSeq(s, 1, first + k - 1 - Len(s)) \o SubSeq(s, first, Len(s))
           : first \in 1..Len(s) }

\* VerificationEngine::generateTestCases with these outcomes of std::sample
generateTestCasesRuns(sp) ==
    LET all == MemoryVariations(sp, CellsOf(sp.input_memory),
                                RegisterVariations(sp, BaseTestCase(sp)))
        critical_cases == SelectSeq(all, is_critical)
        other_cases    == SelectSeq(all, LAMBDA tc : ~is_critical(tc))
        \* 100 - critical_cases.size() is computed in size_t
        sample_size == IF Len(critical_cases) > TestCaseLimit
                       THEN Len(other_cases)
                       ELSE Min(TestCaseLimit - Len(critical_cases),
                                Len(other_cases))
    IN  IF Len(all) > TestCaseLimit
        THEN { critical_cases \o sampled :
                  sampled \in SampleRuns(other_cases, sample_size) }
        ELSE { all }

\* the specifications whose test cases are generated:
\*  - every input is EXACT
\*  - A is ANY
\*  - A, X and Y are 5, and SP, C and Z are ANY
TestSpecs ==
    { OptimizationSpec(8192, FixedCPU, << >>, FreeCPU, << >>),
      OptimizationSpec(8192, [FixedCPU EXCEPT !.a = ANY], << >>, FreeCPU,
                       << >>),
      [ OptimizationSpec(8192, CPUState(EXACT(5), EXACT(5), EXACT(5), ANY),
                         << >>, FreeCPU, << >>)
        EXCEPT !.input_flags = [FixedFlags EXCEPT !.c = ANY, !.z = ANY] ] }

\* generateTestCases() has not been called
TestsIdle ==
    /\ last_cases = << >>
    /\ first_cases = << >>
    /\ gen_calls = 0

\* verify() calls generateTestCases()
generateCall ==
    /\ gen_calls < CallBound
    /\ \E cases \in generateTestCasesRuns(spec) :
         /\ last_cases' = cases
         /\ first_cases' = IF gen_calls = 0 THEN cases ELSE first_cases
    /\ gen_calls' = gen_calls + 1

\* a VerificationEngine constructed for one of the specifications
TestsInit ==
    /\ TestsIdle
    /\ spec \in TestSpecs
    /\ candidate = << >>
    /\ test = NoTest
    /\ state = NewState
    /\ memory = NewTrackedMemory
    /\ execResult = NewExecutionResult
    /\ max_instructions = 0
    /\ phase = "idle"
    /\ test_passed = FALSE
    /\ brk_at = 0

TestsNext ==
    generateCall /\ UNCHANGED <<genVars, memVars, cpuVars, matchVars,
                                cacheVars, substVars, searchVars, sgVars, wkVars>>

----------------------------------------------------------------------------
(* sequence_generator: the enumerator over (slot, opcode) pairs *)

\* get_next_sequence is explored until the tuple has PairBound + 1 pairs
PairBound == 2

\* the slot counts of the configuration are 0..SlotBound
SlotBound == 2

\* the usable flags of an OpcodeDef
ILLEGAL  == 0
LEGAL    == 1
UNUSABLE == 4

OpcodeDef(opcode, addressing, usable) ==
    [opcode |-> opcode, addressing |-> addressing, usable |-> usable]

\* the opcode tables explored, entries of the 6502 table in the order of
\* their opcodes:
\*   LDA #, LDA abs, NOP;  an entry marked unusable, JMP (ind), LDA zp;
\*   LDA (zp,X), LAX zp (illegal), LDA abs,Y
OpcodeTables ==
    { << OpcodeDef(169, "IMM", LEGAL), OpcodeDef(173, "ABS", LEGAL),
         OpcodeDef(234, "IMP", LEGAL) >>,
      << OpcodeDef(2, "IMP", UNUSABLE), OpcodeDef(108, "IND", LEGAL),
         OpcodeDef(165, "ZPG", LEGAL) >>,
      << OpcodeDef(161, "INX", LEGAL), OpcodeDef(167, "ZPG", ILLEGAL),
         OpcodeDef(185, "ABY", LEGAL) >> }

\* the configurations explored
Configurations ==
    [ use_illegal_instructions : BOOLEAN,
      max_memory_slots         : 0..SlotBound,
      max_const_slots          : 0..SlotBound,
      max_zero_page_slots      : 0..SlotBound ]

\* sequence_generator_opcode_info::add_states on an empty parameter list
add_states(type, count) ==
    [ i \in 1..count |-> [type |-> type, value |-> i - 1] ]

\* the switch of init(): the parameters an addressing mode is given
paramsOfMode(conf, addressing) ==
    CASE addressing = "IMM" ->
           add_states("E_PARAM_CONST_SLOT", conf.max_const_slots)
      [] addressing \in {"ABS", "ABX", "ABY"} ->
           add_states("E_PARAM_MEM_SLOT", conf.max_const_slots)
      [] addressing = "IND" ->
           add_states("E_PARAM_ZP_SLOT", conf.max_zero_page_slots)
      [] OTHER -> << >>

\* an opcode with no parameter gets the single state E_PARAM_NONE
opcodeInfo(conf, def) ==
    [ opcode |-> def.opcode,
      params_per_opcode |->
          IF paramsOfMode(conf, def.addressing) = << >>
          THEN add_states("E_PARAM_NONE", 1)
          ELSE paramsOfMode(conf, def.addressing) ]

\* the entries of the table that init() keeps
isUsable(conf, def) ==
    /\ (def.usable \div UNUSABLE) % 2 = 0
    /\ ~(conf.use_illegal_instructions = FALSE /\ def.usable = ILLEGAL)

\* the loop of sequence_generator::init
RECURSIVE initOpcodes(_, _)
initOpcodes(conf, table) ==
    IF table = << >> THEN << >>
    ELSE IF isUsable(conf, Head(table))
    THEN << opcodeInfo(conf, Head(table)) >> \o initOpcodes(conf, Tail(table))
    ELSE initOpcodes(conf, Tail(table))

\* i_max taken one too large
digitMax_OneMore(uo, omax, v, i) ==
    IF i % 2 = 0 THEN Len(uo[v[i + 2] + 1].params_per_opcode) ELSE omax

\* i_max of the counter loop for the byte at index i (from 0): the last
\* parameter of the opcode the pair names, or the last opcode
digitMax(uo, omax, v, i) ==
    IF i % 2 = 0 THEN Len(uo[v[i + 2] + 1].params_per_opcode) - 1 ELSE omax

\* the memset left out
zeroFirst_Nothing(v, k) == v

\* memset(&v[0], 0, k)
zeroFirst(v, k) == [ j \in 1..Len(v) |-> IF j <= k THEN 0 ELSE v[j] ]

\* the counter loop of get_next_sequence from index i: the vector and the
\* index the loop ends at
RECURSIVE countFrom(_, _, _, _)
countFrom(uo, omax, v, i) ==
    IF i = Len(v) THEN [v |-> v, i |-> i]
    ELSE IF v[i + 1] < digitMax(uo, omax, v, i)
    THEN [v |-> [v EXCEPT ![i + 1] = @ + 1], i |-> i]
    ELSE countFrom(uo, omax, zeroFirst(v, i + 1), i + 1)

\* the vector after get_next_sequence
nextVector(uo, omax, v) ==
    Apply(LAMBDA r :
            IF r.i = Len(v)
            THEN (IF r.i # 0 THEN zeroFirst(r.v, Len(v)) ELSE r.v) \o <<0, 0>>
            ELSE r.v,
          countFrom(uo, omax, v, 0))

\* a sequence_generator before init()
SeqGenIdle ==
    /\ global_configuration =
         [ use_illegal_instructions |-> FALSE, max_memory_slots |-> 0,
           max_const_slots |-> 0, max_zero_page_slots |-> 0 ]
    /\ opcode_def = << >>
    /\ usable_opcodes = << >>
    /\ opcode_max = 0
    /\ last_sequence_vector = << >>
    /\ a_sequence = << >>
    /\ emitted = {}
    /\ repeated = FALSE
    /\ sg_ready = FALSE

\* main has set the configuration; the table holds a usable opcode
SeqGenInit ==
    /\ global_configuration \in Configurations
    /\ opcode_def \in OpcodeTables
    /\ usable_opcodes = << >>
    /\ opcode_max = 0
    /\ last_sequence_vector = << >>
    /\ a_sequence = << >>
    /\ emitted = {}
    /\ repeated = FALSE
    /\ sg_ready = FALSE

\* sequence_generator::init
sgInit ==
    /\ ~sg_ready
    /\ usable_opcodes' = initOpcodes(global_configuration, opcode_def)
    /\ opcode_max' = Len(usable_opcodes') - 1
    /\ sg_ready' = TRUE
    /\ UNCHANGED <<global_configuration, opcode_def, last_sequence_vector,
                   a_sequence, emitted, repeated>>

\* sequence_generator::get_next_sequence
get_next_sequence ==
    /\ sg_ready
    /\ Len(last_sequence_vector) < 2 * (PairBound + 1)
    /\ last_sequence_vector' =
           nextVector(usable_opcodes, opcode_max, last_sequence_vector)
    /\ a_sequence' = last_sequence_vector'
    /\ emitted' = emitted \cup { a_sequence' }
    /\ repeated' = (repeated \/ a_sequence' \in emitted)
    /\ UNCHANGED <<global_configuration, opcode_def, usable_opcodes,
                   opcode_max, sg_ready>>

SeqGenNext ==
    \/ sgInit /\ UNCHANGED <<genVars, memVars, cpuVars, matchVars, cacheVars,
                             substVars, searchVars, tgVars, wkVars>>
    \/ get_next_sequence
          /\ UNCHANGED <<genVars, memVars, cpuVars, matchVars, cacheVars,
                         substVars, searchVars, tgVars, wkVars>>

----------------------------------------------------------------------------
(* Workers that share one sequence_generator (create_sequence_information) *)

\* the workers of the loop of create_sequence_information
WorkerBound == 2

Workers == 1..WorkerBound

\* the iterations of the loop of create_sequence_information (1000000 there)
IterationBound == 5

\* what main writes to global_configuration
MainConfiguration ==
    [ use_illegal_instructions |-> FALSE, max_memory_slots |-> 2,
      max_const_slots |-> 2, max_zero_page_slots |-> 2 ]

\* a worker between two iterations of the loop
NewWorker ==
    [ pc |-> "idle", read |-> << >>, sequence |-> << >>,
      instructions |-> << >> ]

\* no worker has started
WorkersIdle ==
    /\ lock = 0
    /\ workers = [ w \in Workers |-> NewWorker ]
    /\ wk_crashed = FALSE
    /\ iterations = 0

\* a critical section that lets everyone in
lockFree_Always(l) == TRUE

\* "omp critical": nobody is inside
lockFree(l) == l = 0

\* convert_seq_to_instructions: s bytes of the vector v, pair by pair
\* (init leaves no opcode with an empty params_per_opcode, so the branch for
\* empty() is never taken)
convert_seq_to_instructions(uo, v, s) ==
    [ k \in 1..(s \div 2) |->
        [ opcode |-> uo[v[2 * k] + 1].opcode,
          type   |-> uo[v[2 * k] + 1].params_per_opcode[v[2 * k - 1] + 1].type,
          value  |-> uo[v[2 * k] + 1].params_per_opcode[v[2 * k - 1] + 1].value ] ]

\* the statement of get_next_sequence before the critical section: it reads
\* last_sequence_vector and uses nothing of it. While another worker is
\* inside the critical section the read is a data race: it goes unnoticed or
\* the process dies.
wkPrecheck(w) ==
    /\ sg_ready /\ ~wk_crashed
    /\ workers[w].pc = "idle"
    /\ iterations < IterationBound
    /\ iterations' = iterations + 1
    /\ \E dies \in (IF lock # 0 THEN BOOLEAN ELSE {FALSE}) :
         /\ wk_crashed' = dies
         /\ workers' = IF dies THEN workers
                       ELSE [workers EXCEPT ![w].pc = "checked"]
    /\ UNCHANGED <<lock, sgVars>>

\* the critical section is entered; the counter the worker finds
wkEnter(w) ==
    /\ ~wk_crashed
    /\ workers[w].pc = "checked"
    /\ lockFree(lock)
    /\ lock' = w
    /\ workers' = [workers EXCEPT ![w].pc = "critical",
                                  ![w].read = last_sequence_vector]
    /\ UNCHANGED <<wk_crashed, iterations, sgVars>>

\* the counter is advanced and copied to a_sequence; the section is left
wkExit(w) ==
    /\ ~wk_crashed
    /\ workers[w].pc = "critical"
    /\ \E nv \in { nextVector(usable_opcodes, opcode_max, workers[w].read) } :
         /\ last_sequence_vector' = nv
         /\ a_sequence' = nv
         /\ emitted' = emitted \cup {nv}
         /\ repeated' = (repeated \/ nv \in emitted)
         /\ workers' = [workers EXCEPT ![w].pc = "got", ![w].sequence = nv]
    /\ lock' = 0
    /\ UNCHANGED <<wk_crashed, iterations, global_configuration, opcode_def,
                   usable_opcodes, opcode_max, sg_ready>>

\* convert_seq_to_instructions(sequence, instructions): the bytes are taken
\* from last_sequence_vector, outside any critical section. While another
\* worker is inside, the read is a data race: the counter before or after
\* that worker's advance is seen, or the process dies.
wkConvert(w) ==
    /\ ~wk_crashed
    /\ workers[w].pc = "got"
    /\ \E seen \in { last_sequence_vector } \cup
                   ( IF lock # 0
                     THEN { nextVector(usable_opcodes, opcode_max,
                                       last_sequence_vector), << >> }
                     ELSE {} ) :
         /\ wk_crashed' = (seen = << >>)
         /\ workers' =
               IF seen = << >> THEN workers
               ELSE [workers EXCEPT
                       ![w].pc = "converted",
                       ![w].instructions =
                           convert_seq_to_instructions(usable_opcodes, seen,
                                  Len(workers[w].sequence))]
    /\ UNCHANGED <<lock, iterations, sgVars>>

\* print_sequence, and the iteration is over
wkPrint(w) ==
    /\ ~wk_crashed
    /\ workers[w].pc = "converted"
    /\ workers' = [workers EXCEPT ![w] = NewWorker]
    /\ UNCHANGED <<lock, wk_crashed, iterations, sgVars>>

\* main has set the configuration and the generator is constructed
WorkersInit ==
    /\ WorkersIdle
    /\ global_configuration = MainConfiguration
    /\ opcode_def \in OpcodeTables
    /\ usable_opcodes = << >>
    /\ opcode_max = 0
    /\ last_sequence_vector = << >>
    /\ a_sequence = << >>
    /\ emitted = {}
    /\ repeated = FALSE
    /\ sg_ready = FALSE

WorkersNext ==
    \/ sgInit /\ UNCHANGED <<genVars, memVars, cpuVars, matchVars, cacheVars,
                             substVars, searchVars, tgVars, wkVars>>
    \/ (\E w \in Workers : wkPrecheck(w))
          /\ UNCHANGED <<genVars, memVars, cpuVars, matchVars, cacheVars,
                         substVars, searchVars, tgVars>>
    \/ (\E w \in Workers : wkEnter(w))
          /\ UNCHANGED <<genVars, memVars, cpuVars, matchVars, cacheVars,
                         substVars, searchVars, tgVars>>
    \/ (\E w \in Workers : wkExit(w))
          /\ UNCHANGED <<genVars, memVars, cpuVars, matchVars, cacheVars,
                         substVars, searchVars, tgVars>>
    \/ (\E w \in Workers : wkConvert(w))
          /\ UNCHANGED <<genVars, memVars, cpuVars, matchVars, cacheVars,
                         substVars, searchVars, tgVars>>
    \/ (\E w \in Workers : wkPrint(w))
          /\ UNCHANGED <<genVars, memVars, cpuVars, matchVars, cacheVars,
                         substVars, searchVars, tgVars>>

----------------------------------------------------------------------------
(* Specifications *)

\* the enumerator alone
InitGen == GenInit /\ MemIdle /\ CpuIdle /\ MatchIdle /\ CacheIdle /\ SubstIdle
       /\ SearchIdle /\ TestsIdle /\ SeqGenIdle /\ WorkersIdle
SpecGen == InitGen /\ [][GenNext]_vars

\* the tracked memory alone
InitMem == GenIdle /\ MemInit /\ CpuIdle /\ MatchIdle /\ CacheIdle /\ SubstIdle
       /\ SearchIdle /\ TestsIdle /\ SeqGenIdle /\ WorkersIdle
SpecMem == InitMem /\ [][MemNext]_vars

\* test runs alone
InitCpu == GenIdle /\ MemIdle /\ CpuInit /\ MatchIdle /\ CacheIdle /\ SubstIdle
       /\ SearchIdle /\ TestsIdle /\ SeqGenIdle /\ WorkersIdle
SpecCpu == InitCpu /\ [][CpuNext]_vars

\* test runs under the scheduling of sequential code: the loop of execute()
\* keeps taking its next step
SpecCpuFair == SpecCpu /\ WF_cpuVars(ExecStep) /\ WF_cpuVars(ExecReturn)

\* the memory check alone
InitMatch == GenIdle /\ MemIdle /\ MatchInit /\ CacheIdle /\ SubstIdle
       /\ SearchIdle /\ TestsIdle /\ SeqGenIdle /\ WorkersIdle
SpecMatch == InitMatch /\ [][MatchNext]_vars

\* the CPU check alone
InitMatchCpu == GenIdle /\ MemIdle /\ MatchCpuInit /\ CacheIdle /\ SubstIdle
       /\ SearchIdle /\ TestsIdle /\ SeqGenIdle /\ WorkersIdle
SpecMatchCpu == InitMatchCpu /\ [][MatchCpuNext]_vars

\* the cache and cache substitution alone
InitCache ==
    GenIdle /\ MemIdle /\ CpuIdle /\ MatchIdle /\ CacheInit /\ SearchIdle /\ TestsIdle /\ SeqGenIdle /\ WorkersIdle
SpecCache == InitCache /\ [][CacheNext]_vars

\* cache substitution under the scheduling of sequential code: the loops of
\* optimizeWithCache keep taking their next step
SpecCacheFair ==
    SpecCache /\ WF_substVars(owcPair) /\ WF_substVars(owcExit)

\* a search: main calls optimize() once
InitSearch ==
    GenInit /\ MemIdle /\ MatchIdle /\ CacheIdle /\ SearchInit(Specs)
    /\ TestsIdle /\ SeqGenIdle /\ WorkersIdle
SpecSearch == InitSearch /\ [][SearchNext]_vars

\* the search for the specification "register preservation", goal SIZE
InitExample ==
    /\ GenInit /\ MemIdle /\ MatchIdle /\ CacheIdle
    /\ SearchInit(RegisterPreservation)
    /\ TestsIdle /\ SeqGenIdle /\ WorkersIdle
    /\ goal = "SIZE"
SpecExample == InitExample /\ [][SearchNext]_vars

\* optimize() and main with the answers of the verifier as inputs
InitOptimize ==
    GenInit /\ MemIdle /\ MatchIdle /\ CacheIdle /\ SearchInit(OptimizeSpecs)
    /\ TestsIdle /\ SeqGenIdle /\ WorkersIdle
SpecOptimize == InitOptimize /\ [][OptimizeNext]_vars

\* the test-case generator alone
InitTests ==
    GenIdle /\ MemIdle /\ MatchIdle /\ CacheIdle /\ SubstIdle /\ SearchIdle
    /\ TestsInit /\ SeqGenIdle /\ WorkersIdle
SpecTests == InitTests /\ [][TestsNext]_vars

\* the slot enumerator alone: init() and then get_next_sequence call after call
InitSeqGen ==
    GenIdle /\ MemIdle /\ CpuIdle /\ MatchIdle /\ CacheIdle /\ SubstIdle
    /\ SearchIdle /\ TestsIdle /\ SeqGenInit /\ WorkersIdle
SpecSeqGen == InitSeqGen /\ [][SeqGenNext]_vars

\* several workers on one enumerator
InitWorkers ==
    GenIdle /\ MemIdle /\ CpuIdle /\ MatchIdle /\ CacheIdle /\ SubstIdle
    /\ SearchIdle /\ TestsIdle /\ WorkersInit
SpecWorkers == InitWorkers /\ [][WorkersNext]_vars

----------------------------------------------------------------------------
(* Claims about the enumerator, checked under SpecGen *)

\* every unpruned sequence of length L over the current alphabet
UnprunedOfLength(L) ==
    { s \in Range(generateSequencesRecursive(valid_opcodes, <<>>, L)) :
        "true" \notin shouldPrune(s) }

\* C3: when next() returns false, every sequence of every length from 1 to
\* max_length that can be formed from the valid opcodes and operand choices,
\* apart from the pruned ones, has been returned (lengths above LengthBound
\* are left out of the comparison).
C3_AllReturnedBeforeFalse ==
    (next_result.called /\ ~next_result.ok /\ ~gen_crashed)
        => \A L \in 1..Min(max_length, LengthBound) :
               UnprunedOfLength(L) \subseteq returned

\* C4: with no reset() or setValidOpcodes() in between (setMaxLength()
\* allowed), a returned sequence is at least as long as the one before it.
C4_NonDecreasingLength == prev_len <= last_len

----------------------------------------------------------------------------
(* Claims about the tracked memory, checked under SpecMem *)

InSomeRegion(regions, address) ==
    \E i \in 1..Len(regions) :
        /\ regions[i].address <= address
        /\ address < regions[i].address + Len(regions[i].bytes)

\* C9: write(a, v) succeeds only if a lies in some output region and, when a
\* has already been read, only if a also lies in some input region; in every
\* other case it raises.
C9_WritePolicy ==
    mem_op.op = "write" =>
        ( ~mem_op.threw
          <=> ( /\ InSomeRegion(tmem.output_regions, mem_op.address)
                /\ ( mem_op.read_before
                     => InSomeRegion(tmem.input_regions, mem_op.address) ) ) )

\* a write to an address read before went through
C9_Witness ==
    mem_op.op = "write" /\ mem_op.read_before /\ ~mem_op.threw

----------------------------------------------------------------------------
(* Claims about execute() and runTest, checked under SpecCpu *)

\* execute() has returned to its caller
Returned == phase \in {"returned", "done"}

\* execute() never returns without an error, so no test run passes
NeverPasses ==
    /\ (Returned => execResult.error # "NONE")
    /\ ~test_passed

\* C5: when execution reaches a BRK, execute() stops at that instruction and
\* returns with completed = true and no error; nothing after the BRK runs.
C5_BrkStops ==
    (Returned /\ brk_at > 0)
        => /\ execResult.completed
           /\ execResult.error = "NONE"
           /\ execResult.instructions = brk_at

\* C6: execute() never runs more than max_instructions instructions, a run
\* that used up the limit returns EXECUTION_LIMIT_REACHED, and every run
\* returns.
C6_LimitSafe ==
    /\ execResult.instructions <= max_instructions
    /\ (Returned /\ execResult.instructions = max_instructions)
          => execResult.error = "EXECUTION_LIMIT_REACHED"
    /\ (Returned /\ execResult.error = "EXECUTION_LIMIT_REACHED")
          => execResult.instructions = max_instructions

C7_WritesInOutput ==
    (execResult.error = "NONE" \/ test_passed)
        => \A a \in memory.modified_addresses :
               InSomeRegion(spec.output_memory, a)

\* a run that has written and raised no error
C7_Witness ==
    /\ phase = "running"
    /\ execResult.error = "NONE"
    /\ execResult.instructions > 0
    /\ memory.modified_addresses # {}

\* C8: in a run that has raised no error, and so in every run of a test that
\* passes, every address read lies inside some input region.
C8_ReadsInInput ==
    (execResult.error = "NONE" \/ test_passed)
        => \A a \in memory.read_addresses :
               InSomeRegion(spec.input_memory, a)

\* a run that has read code and data and raised no error
C8_Witness ==
    /\ phase = "running"
    /\ execResult.error = "NONE"
    /\ \E a \in memory.read_addresses : a < spec.run_address
    /\ \E a \in memory.read_addresses : a >= spec.run_address

----------------------------------------------------------------------------
(* Claims about matchesMemoryState, checked under SpecMatch *)

\* C10: the memory check accepts, and so a test passes, only if every output
\* byte marked EQU equals the byte the original code block produces from the
\* same input.
C10_EquMatchesReference ==
    match_result = "true"
        => \A a \in OutputAddresses(spec, {"EQU"}) :
               Stored(memory, a) = reference[a]


----------------------------------------------------------------------------
(* Claims about the CPU check, checked under SpecMatchCpu *)

\* a flag as the byte the specification gives for it
FlagByte(f) == IF f THEN 1 ELSE 0

\* the register or flag `name` ends as its output value asks
EndsAsAsked(value, final, initial) ==
    CASE value.type = "EXACT" -> final = value.exact_value
      [] value.type = "SAME"  -> final = initial
      [] OTHER                -> TRUE

\* C11: the CPU check passes exactly when every register (A, X, Y, SP) and
\* flag with an EXACT output ends at the given byte and every one with a SAME
\* output ends at the value of the test case's initial state; an ANY output
\* never makes the check fail
C11_CpuStateMatch ==
    match_result # "none" =>
      ( match_result = "true" <=>
          /\ \A r \in {"a", "x", "y", "sp"} :
                EndsAsAsked(spec.output_cpu[r], state[r], test.cpu[r])
          /\ \A f \in {"c", "z", "i", "d", "b", "v", "n"} :
                EndsAsAsked(spec.output_flags[f], FlagByte(state[f]),
                            FlagByte(test.cpu[f])) )

\* the check passed on a SAME register that kept a non-zero initial value,
\* with an ANY register and an ANY flag that ended away from their initial
\* values
C11_Witness ==
    /\ match_result = "true"
    /\ spec.output_cpu.a.type = "SAME" /\ test.cpu.a # 0
    /\ spec.output_cpu.x.type = "EXACT"
    /\ spec.output_cpu.y.type = "ANY" /\ state.y # test.cpu.y
    /\ spec.output_flags.i.type = "ANY" /\ state.i # test.cpu.i
    /\ spec.output_flags.z.type = "SAME"


----------------------------------------------------------------------------
(* Claims about the cache and cache substitution, checked under SpecCache *)

\* C13: after any add() calls, the cycle-optimal sequence stored for a key
\* has the lowest cycle count among all sequences ever added under the key
C13_CycleOptimalLowest ==
    \A k \in DOMAIN cache :
        \A p \in added[k].pairs : added[k].cycle_optimal_cycles <= p.cycles

\* C14: after any add() calls, the size-optimal sequence stored for a key
\* has the smallest byte length among all sequences ever added under the key
C14_SizeOptimalSmallest ==
    \A k \in DOMAIN cache :
        /\ k \in DOMAIN added
        /\ \A p \in added[k].pairs :
              Len(cache[k].size_optimal_sequence) <= p.size
        /\ \E p \in added[k].pairs :
              Len(cache[k].size_optimal_sequence) = p.size

\* the last add() put a shorter sequence in the size-optimal slot of a key
\* that held a longer one
C14_Witness ==
    /\ cache_op.op = "add"
    /\ cache_op.key \in DOMAIN cache
    /\ cache[cache_op.key].size_optimal_sequence = cache_op.sequence
    /\ \E p \in added[cache_op.key].pairs : p.size > Len(cache_op.sequence)

Metric(sequence, hi_first) ==
    IF goal = "SIZE" THEN getSize(sequence) ELSE getCycles(sequence, hi_first)

\* C17: every replacement made by cache substitution, of a sub-range or of
\* the whole candidate, yields a candidate whose metric under the active goal
\* is strictly smaller than before the replacement
C17_ReplacementDecreases ==
    owc.kind # "none" =>
        \A hi_first \in BOOLEAN :
            Metric(owc.after, hi_first) < Metric(owc.before, hi_first)

\* cache substitution never makes more replacements than a strictly
\* decreasing length allows, the replacement of the whole candidate included
C18_FinitelyMany == owc.replacements <= Len(owc.input) + 1

\* C18: for every candidate and every cache content, cache substitution
\* performs finitely many replacements and then returns
C18_SubstitutionTerminates ==
    /\ []C18_FinitelyMany
    /\ (owc.phase \in {"loop", "exit"}) ~> (owc.phase = "returned")

\* a call that went through the loops over a non-empty cache has returned
C18_Witness ==
    /\ owc.phase = "returned"
    /\ Len(owc.boundaries) > 2
    /\ cache # NoEntries

----------------------------------------------------------------------------
(* Claims about the search, checked under SpecSearch *)

\* C12: when a candidate's run is ended by a violation of the memory policy,
\* only that test fails: the candidate is not verified, nothing is cached,
\* the process is neither crashed nor ended, and the search is back at the
\* head of its loop for the next candidate.
C12_ViolationOnlyFailsTest ==
    [][ ( search.phase = "body" /\ search'.phase # "body"
          /\ search'.violation )
        => ( /\ ~search'.verify
             /\ search'.phase = "loop"
             /\ cache' = cache
             /\ best_solution' = best_solution
             /\ sequences_tested' = sequences_tested + 1 ) ]_vars

\* a candidate broke the memory policy and the search has taken the next one
C12_Witness ==
    /\ search.phase = "body"
    /\ search.violation
    /\ ~search.verify
    /\ search.candidate # search.optimized
    /\ sequences_tested > 0

----------------------------------------------------------------------------
(* Claims about optimize() and main, checked under SpecOptimize *)

\* the sequences the cache holds
CachedSequences ==
    UNION { { cache[k].size_optimal_sequence, cache[k].cycle_optimal_sequence }
            : k \in DOMAIN cache }

cyclesOf(sequence) ==
    execute([NewState EXCEPT !.pc = 4096],
            [Install(NewTrackedMemory, 4096, sequence) EXCEPT
                !.input_regions =
                    << MemoryRegion(4096, [i \in 1..Len(sequence) |-> ANY]) >>],
            4096, Len(findInstructionBoundaries(sequence)) - 1,
            TRUE).result.cycles

C20_NoSolutionIffNonePassed ==
    search.phase = "exited" =>
        /\ (best_solution = << >> /\ exit_code # 0) <=> (verified = {})
        /\ (verified # {}) => (best_solution # << >> /\ exit_code = 0)
        /\ (verified = {}) => search.ended_by \in {"exhausted", "deadline"}

\* candidates were tested, none passed, the deadline ended the search
C20_Witness ==
    /\ search.phase = "exited"
    /\ search.ended_by = "deadline"
    /\ sequences_tested > 0
    /\ verified = {}
    /\ best_solution = << >>
    /\ exit_code = 1

\* C21: once the deadline has passed, the check between candidates lets no
\* further candidate through to verification: the loop is left there, the
\* best solution found so far is untouched and is what optimize() returns
C21_DeadlineEndsSearch ==
    [][ ( deadline_passed /\ search.phase = "loop" /\ search' # search )
        => ( /\ search'.phase \in {"returned", "crashed"}
             /\ sequences_tested' = sequences_tested
             /\ best_solution' = best_solution ) ]_vars

\* candidates were tested, one was taken as the best solution, the deadline
\* passed and the next check ended the loop
C21_Witness ==
    /\ deadline_passed
    /\ search.phase = "returned"
    /\ search.ended_by = "deadline"
    /\ sequences_tested > 1
    /\ best_solution # << >>

----------------------------------------------------------------------------
(* The search for "register preservation", checked under SpecExample *)

\* C22: with inputs A and X of any value, an empty block at $1000, outputs
\* A = SAME and X = $05 and goal SIZE, the search returns the two bytes A2 05
C22_ReturnsLdx5 ==
    search.phase = "exited" => best_solution = << 162, 5 >>

----------------------------------------------------------------------------
(* Claims about the test cases, checked under SpecTests *)

\* C23: the test cases generateTestCases() returns always contain the base
\* case seeded from the EXACT inputs, also when the expanded set is above the
\* limit and is sampled down
C23_BaseCaseKept ==
    gen_calls > 0 => BaseTestCase(spec) \in Range(last_cases)

\* C24: for a fixed specification every call of generateTestCases() yields
\* the same set of test cases
C24_SameCasesEveryCall ==
    gen_calls > 1 => Range(last_cases) = Range(first_cases)


\* C25: after any sequence of read, write and initialize operations on a
\* tracked memory, no address is in both the recorded read set and the
\* recorded write set.
C25_ReadsWritesDisjoint ==
    tmem.read_addresses \cap tmem.modified_addresses = {}


----------------------------------------------------------------------------
(* Claims about the slot enumerator, checked under SpecSeqGen *)

\* the (slot, opcode) pairs that name a parameter of a usable opcode
ValidPairs(uo) ==
    UNION { { <<p, o>> : p \in 0..(Len(uo[o + 1].params_per_opcode) - 1) } :
            o \in 0..(Len(uo) - 1) }

\* the tuples of n valid pairs
RECURSIVE ValidTuples(_, _)
ValidTuples(uo, n) ==
    IF n = 0 THEN { << >> }
    ELSE { t \o pr : t \in ValidTuples(uo, n - 1), pr \in ValidPairs(uo) }

\* C26: for each instruction count n, successive get_next_sequence calls
\* emit every valid tuple of n (slot, opcode) pairs exactly once, none
\* skipped and none repeated, and only then grow the tuple to n+1 pairs,
\* restarting at all zeros.
C26_EveryTupleOnce ==
    /\ []( sg_ready =>
            /\ ~repeated
            /\ \A t \in emitted :
                   t \in ValidTuples(usable_opcodes, Len(t) \div 2)
            /\ \A n \in 1..(Len(a_sequence) \div 2) :
                   2 * n < Len(a_sequence)
                       => ValidTuples(usable_opcodes, n) \subseteq emitted )
    /\ [][ Len(a_sequence') # Len(a_sequence)
              => /\ Len(a_sequence') = Len(a_sequence) + 2
                 /\ \A j \in 1..Len(a_sequence') : a_sequence'[j] = 0 ]_vars

\* the tuple has grown to three pairs after every tuple of one and of two
\* pairs, for a table with an opcode of two slots
C26_Witness ==
    /\ sg_ready
    /\ Len(a_sequence) = 6
    /\ Len(usable_opcodes) >= 2
    /\ \E o \in 1..Len(usable_opcodes) :
           Len(usable_opcodes[o].params_per_opcode) = 2
    /\ Cardinality(emitted) = 1 + Cardinality(ValidPairs(usable_opcodes))
             + Cardinality(ValidPairs(usable_opcodes))
                 * Cardinality(ValidPairs(usable_opcodes))

\* C27: for every usable opcode, the number of operand slots the enumerator
\* cycles through is max_const_slots for immediate, max_memory_slots for
\* absolute, absolute,X and absolute,Y, max_zero_page_slots for the zero-page
\* modes, (ind,X) and (ind),Y, and a single NONE slot for the other modes.
C27_SlotCountPerMode ==
    sg_ready =>
      \A d \in Range(opcode_def) : \A u \in Range(usable_opcodes) :
        u.opcode = d.opcode =>
          CASE d.addressing = "IMM" ->
                 Len(u.params_per_opcode)
                     = global_configuration.max_const_slots
            [] d.addressing \in {"ABS", "ABX", "ABY"} ->
                 Len(u.params_per_opcode)
                     = global_configuration.max_memory_slots
            [] d.addressing \in {"ZPG", "ZPX", "ZPY", "INX", "INY"} ->
                 Len(u.params_per_opcode)
                     = global_configuration.max_zero_page_slots
            [] OTHER ->
                 u.params_per_opcode = add_states("E_PARAM_NONE", 1)


----------------------------------------------------------------------------
(* Claims about the length bound of the enumerator, checked under SpecGen *)

\* C29: after setMaxLength(k), next() never returns a sequence longer than
\* k bytes. (The callers pass 32 and best_solution.size() + 4; the bounds
\* explored are 1..LengthBound.)
C29_NoLongerThanMaxLength ==
    next_result.ok => Len(next_result.sequence) <= max_length

\* the bound was lowered and next() has returned a sequence of exactly that
\* many bytes, longer than one instruction of the alphabet
C29_Witness ==
    /\ max_length <= LengthBound
    /\ max_length >= 3
    /\ next_result.ok
    /\ Len(next_result.sequence) = max_length


----------------------------------------------------------------------------
(* Claims about pruning, checked under SpecGen *)

\* a specification whose code byte is readable: X is 0 and is to end as 1
IncrementX ==
    OptimizationSpec(8192, FixedCPU,
                     << MemoryRegion(8192, << EXACT(232) >>) >>,
                     [FreeCPU EXCEPT !.x = EXACT(1)], << >>)

\* the run of `sequence` ends, on every test case, in a state that matches
\* the outputs of the specification
meetsOutputs(sp, sequence) ==
    \A cases \in generateTestCases(sp) : \A k \in 1..Len(cases) :
        \A hi_first \in BOOLEAN :
            runTest_ErrorsIgnored(sp, sequence, cases[k], hi_first).ok

\* current_sequences is what generateSequencesOfLength gave for current_length
listIsCurrent ==
    /\ ~gen_crashed
    /\ [crashed |-> FALSE, sequences |-> current_sequences]
           \in generateSequencesOfLength(valid_opcodes, current_length)

\* C28: pruning does not change what the search can find: whenever some
\* sequence of a given byte length satisfies the specification, a sequence of
\* that length satisfying it is still emitted after pruning.
C28_PruningKeepsSolutions ==
    listIsCurrent =>
      ( (\E s \in Range(generateSequencesRecursive(valid_opcodes, << >>,
                                                    current_length)) :
            meetsOutputs(IncrementX, s))
        => \E s \in Range(current_sequences) : meetsOutputs(IncrementX, s) )


----------------------------------------------------------------------------
(* Claims about the cycles of branches, checked under SpecCpu *)

\* the branch at the program counter is taken in this state
branchTaken ==
    CASE Stored(memory, state.pc) = 208 -> ~state.z
      [] Stored(memory, state.pc) = 240 -> state.z
      [] Stored(memory, state.pc) = 144 -> ~state.c
      [] Stored(memory, state.pc) = 176 -> state.c
      [] OTHER -> FALSE

\* C30: the cycle count reported for executing a taken branch is the
\* opcode's base cycles plus 1 when the branch target is in the same page and
\* plus 2 when it is in another page; a branch that is not taken adds nothing
\* to the base cycles.
C30_BranchCycles ==
    [][ ( /\ phase = "running"
          /\ Stored(memory, state.pc) \in {208, 240, 144, 176}
          /\ execResult'.instructions = execResult.instructions + 1 )
        => execResult'.cycles - execResult.cycles =
             getInstructionCycles(Stored(memory, state.pc))
             + ( IF ~branchTaken THEN 0
                 ELSE IF state'.pc \div 256 = ((state.pc + 2) % 65536) \div 256
                 THEN 1 ELSE 2 ) ]_vars


----------------------------------------------------------------------------
(* Claims about the end of the enumeration, checked under SpecGen *)

\* C38: once next() has returned false, every later next() call on the same
\* enumerator also returns false, as long as none of reset(),
\* setValidOpcodes() and setMaxLength() is called. (reset() and
\* setValidOpcodes() clear next_result; setMaxLength() is excluded by the
\* unchanged max_length.)
C38_FalseStaysFalse ==
    [][ ( /\ next_result.called /\ ~next_result.ok
          /\ next_result'.called
          /\ max_length' = max_length )
        => ~next_result'.ok ]_vars


\* C39: after any number of advances of the slot enumerator, every slot
\* element of the tuple is smaller than the slot count of the opcode chosen by
\* its paired opcode element, and every opcode element is smaller than the
\* alphabet size, so decoding never indexes outside the opcode and slot tables.
C39_TupleInRange ==
    sg_ready =>
      \A k \in 1..(Len(last_sequence_vector) \div 2) :
         /\ last_sequence_vector[2 * k] < Len(usable_opcodes)
         /\ last_sequence_vector[2 * k - 1] <
              Len(usable_opcodes[last_sequence_vector[2 * k] + 1]
                      .params_per_opcode)

\* a tuple of two pairs whose first pair is at its last opcode and last slot,
\* for an opcode of two slots
C39_Witness ==
    /\ sg_ready
    /\ Len(last_sequence_vector) = 4
    /\ Len(usable_opcodes) >= 2
    /\ last_sequence_vector[2] = opcode_max
    /\ last_sequence_vector[1] = 1
    /\ last_sequence_vector[4] = 1
    /\ Len(usable_opcodes[opcode_max + 1].params_per_opcode) = 2
    /\ Len(usable_opcodes[1].params_per_opcode) = 1


----------------------------------------------------------------------------
(* Claims about the reads of the pruning step, checked under SpecGen *)

\* C40: the redundancy check of the pruning step inspects only byte positions
\* inside the sequence it is given, for every sequence length including
\* 1 byte. The sequences are those generated for the current length that
\* hasNoEffect lets through.
C40_RedundancyCheckInBounds ==
    \A s \in Range(generateSequencesRecursive(valid_opcodes, << >>,
                                              current_length)) :
       ~hasNoEffect(s) => inspectedPositions(s) \subseteq 0..(Len(s) - 1)


----------------------------------------------------------------------------
(* Claims about the fetch of the candidate, checked under SpecCpu *)

\* C32: a candidate installed at the run address runs and can pass
\* verification even when the run address lies in no input region: fetching
\* the candidate's own opcode and operand bytes is never rejected by the read
\* policy. Stated for the fetch the loop of execute() is about to make.
C32_CandidateFetchAllowed ==
    ( /\ phase = "running"
      /\ loopContinues(execResult.instructions, max_instructions)
      /\ (state.pc - spec.run_address + 65536) % 65536 < Len(candidate) )
    => ~TrackedRead(memory, state.pc).threw


----------------------------------------------------------------------------
(* Claims about the cycle metric, checked under SpecOptimize *)

\* C34: the cycle count the driver uses as a candidate's SPEED metric and
\* stores in the cache equals the total cycles of the instructions that
\* candidate executes; in particular it is greater than zero for every
\* candidate that executes at least one instruction.
C34_CycleMetricIsRunCycles ==
    /\ (goal = "SPEED" /\ best_solution # << >>)
          => (best_metric = cyclesOf(best_solution) /\ best_metric > 0)
    /\ \A k \in DOMAIN cache :
          /\ cache[k].size_optimal_cycles
                = cyclesOf(cache[k].size_optimal_sequence)
          /\ cache[k].size_optimal_cycles > 0


----------------------------------------------------------------------------
(* Claims about the keys of the cache, checked under SpecOptimize *)

\* what a sequence leaves behind when its instructions run from the base
\* input state of the specification: the registers and the bytes written
effectOf(sp, sequence) ==
    Apply(LAMBDA run :
            [ a |-> run.st.a, x |-> run.st.x, y |-> run.st.y,
              sp |-> run.st.sp,
              memory |-> [ addr \in run.tm.modified_addresses |->
                             Stored(run.tm, addr) ] ],
          execute(BaseTestCase(sp).cpu,
                  RunTestMemory(sp, sequence, BaseTestCase(sp)),
                  sp.run_address,
                  Len(findInstructionBoundaries(sequence)) - 1, TRUE))

\* C35: two sequences are filed in the cache under the same key only if, run
\* from the specification's EXACT input state, they finish with the same
\* register values and the same written memory; a sequence whose run fails
\* never shares a key with a sequence that behaves differently. Stated for the
\* sequences whose key the search has computed: the ones in the cache and
\* the candidate it looks up.
C35_SameKeySameEffect ==
    \A s1 \in CachedSequences \cup {search.candidate} :
    \A s2 \in CachedSequences :
        ( s1 # << >>
          /\ extractTransformation(spec, s1, TRUE)
                = extractTransformation(spec, s2, TRUE) )
           => effectOf(spec, s1) = effectOf(spec, s2)


\* the registers, the flags and the written bytes a sequence leaves behind
\* when its instructions run from the base input state of the specification
finalStateOf(sp, sequence) ==
    Apply(LAMBDA run :
            [ cpu |-> [run.st EXCEPT !.pc = 0],
              memory |-> [ addr \in run.tm.modified_addresses |->
                             Stored(run.tm, addr) ] ],
          execute(BaseTestCase(sp).cpu,
                  RunTestMemory(sp, sequence, BaseTestCase(sp)),
                  sp.run_address,
                  Len(findInstructionBoundaries(sequence)) - 1, TRUE))

\* C36: the sequence that cache substitution hands to the verifier has the
\* same effect as the enumerated candidate it was derived from: run from the
\* same input state, both leave the same registers, flags and memory.
C36_SubstitutionKeepsEffect ==
    ( search.phase \in {"loop", "returned"} /\ sequences_tested > 0
      /\ search.candidate # << >> )
    => finalStateOf(spec, search.optimized)
          = finalStateOf(spec, search.candidate)


----------------------------------------------------------------------------
(* Claims about the reads of the final-memory check, checked under SpecMatch *)

\* the final byte at an output cell does not meet the cell's constraint
cellUnmet(cell) ==
    CASE cell.value.type = "EXACT" ->
           Stored(memory, cell.addr) # cell.value.exact_value
      [] cell.value.type = "SAME" ->
           \/ cell.addr \notin DOMAIN test.memory_values
           \/ Stored(memory, cell.addr) # test.memory_values[cell.addr]
      [] cell.value.type = "EQU" ->
           Stored(memory, cell.addr) # reference[cell.addr]
      [] OTHER -> FALSE

\* C37: whether a test case passes the final-memory check depends only on the
\* final bytes at the output-region addresses: an output address that lies in
\* no input region satisfies an EXACT constraint whenever its final byte
\* equals the spec value. So a failed check has a cell whose byte is wrong.
C37_MemoryCheckByBytesOnly ==
    match_result = "false"
        => \E cell \in Range(CellsOf(spec.output_memory)) : cellUnmet(cell)


----------------------------------------------------------------------------
(* Claims about workers sharing the enumerator, checked under SpecWorkers *)

\* C31: when several workers call get_next_sequence concurrently, the counter
\* advances are mutually exclusive: every call returns a distinct counter
\* state, and no state is skipped or handed to two workers.
C31_AdvancesExclusive ==
    /\ []( /\ ~repeated
           /\ \A w1 \in Workers : \A w2 \in Workers :
                ( w1 # w2 /\ workers[w1].sequence # << >> )
                    => workers[w1].sequence # workers[w2].sequence
           /\ Cardinality({ w \in Workers : workers[w].pc = "critical" }) <= 1 )
    /\ [][ a_sequence' # a_sequence
             => a_sequence' = nextVector(usable_opcodes, opcode_max,
                                         a_sequence) ]_vars

\* both workers hold a sequence of two pairs at the same time, and one of
\* them had to wait at the critical section
C31_Witness ==
    /\ workers[1].pc \in {"got", "converted"}
    /\ workers[2].pc \in {"got", "converted"}
    /\ Len(workers[1].sequence) = 4
    /\ Len(workers[2].sequence) = 4
    /\ workers[1].sequence # workers[2].sequence

\* C33: when several workers use the enumerator concurrently, the instruction
\* list a worker gets from convert_seq_to_instructions is the decoding of the
\* sequence that get_next_sequence returned to that same worker, whatever the
\* other workers do in between.
C33_DecodesOwnSequence ==
    \A w \in Workers :
        workers[w].pc = "converted"
            => workers[w].instructions
                   = convert_seq_to_instructions(usable_opcodes, workers[w].sequence,
                            Len(workers[w].sequence))

====
